---- MODULE Spec2Model ----
(***************************************************************************)
(* A model of the SIA alarm receiver of pysiaalarm_generic.                *)
(*                                                                         *)
(*   Spec      the event-loop driver: SIAClient / SIAServerTCP of          *)
(*             custom_components/pysiaalarm/sia/aio, with the event        *)
(*             classes of custom_components/pysiaalarm/sia/event.py.       *)
(*   SpecBase  the thread-per-connection driver built on BaseSIAServer     *)
(*             (src/pysiaalarm/base_server.py).                            *)
(*   SpecServing, SpecPanel  the event-loop driver once its server         *)
(*             listens, with two small sets of lines.                      *)
(*   SpecClock the timestamp check of an event (BaseEvent.valid_timestamp).*)
(*   SpecReconfig  the serving event-loop driver with the accounts setter. *)
(*   SpecRaw   the thread-per-connection driver with its raw-line log.     *)
(*   SpecDebounce  AdaptiveDebounce (adaptive_debounce.py).                *)
(*   SpecCrc   crc_calc of tests/smoke_test.py.                            *)
(*   SpecSensor  the contact sensors of custom_components/.../sensor.py.   *)
(*   SpecPredictor  a sensor with set_predictor_params between its events. *)
(*   SpecCodes, SpecFanout  SIAAlarmData: learnt codes and their sensors,  *)
(*             and the listeners of its events.                            *)
(*   SpecLifecycle  SIAClient started, reconfigured and stopped in any     *)
(*             order while one panel is served.                            *)
(*                                                                         *)
(* A received line is abstracted to the features the parsers and the       *)
(* validity checks look at: its quoted message-kind tag, its account id,   *)
(* the text matched by R<digits> and L<digits>, and whether its checksum,  *)
(* its code and its timestamp are good, and the text between its brackets. *)
(***************************************************************************)
EXTENDS Naturals, Sequences, FiniteSets, Bags, TLC

\* ------------------------------------------------------------------ bounds
MaxConns == 2      \* connections a peer may open
MaxSend == 2       \* lines the peers send, over all connections
MaxStarts == 2     \* calls of SIAClient.start()
MaxThreads == 2    \* handler threads of the thread-per-connection driver
MaxLines == 2      \* lines received by the thread-per-connection driver

Conns == 1..MaxConns
Servers == 1..MaxStarts

\* ------------------------------------------------------------------ lines
KnownAccount == "1111"
UnknownAccount == "9999"
SecondAccount == "2222"

SampleCode == "501"

\* code: the short code the panel put in the content ("" for none); content: the
\* text between the brackets as sent; block: "clear" for cleartext content,
\* "cipher" for a block encrypted under the key of the account, "corrupt" for a
\* block that does not decrypt under that key.
Line(tag, account, crcOk, hasCode, tsOk) ==
    [tag |-> tag, account |-> account, rcv |-> "", ln |-> "L0",
     crcOk |-> crcOk, hasCode |-> hasCode, tsOk |-> tsOk,
     code |-> IF hasCode THEN SampleCode ELSE "",
     content |-> IF hasCode THEN "|501" ELSE "",
     block |-> "clear"]

L_valid == Line("SIA-DCS", KnownAccount, TRUE, TRUE, TRUE)
L_badcrc == Line("SIA-DCS", KnownAccount, FALSE, TRUE, TRUE)
L_nocode == Line("SIA-DCS", KnownAccount, TRUE, FALSE, TRUE)
L_expired == Line("SIA-DCS", KnownAccount, TRUE, TRUE, FALSE)
L_unknown == Line("SIA-DCS", UnknownAccount, TRUE, TRUE, TRUE)
L_oh == Line("OH", KnownAccount, TRUE, FALSE, TRUE)
L_oh_unknown == Line("OH", UnknownAccount, TRUE, FALSE, TRUE)
L_garbage == Line("none", "", FALSE, FALSE, FALSE)

L_blank == Line("blank", "", FALSE, FALSE, FALSE)
L_badcrc_nocode == Line("SIA-DCS", KnownAccount, FALSE, FALSE, TRUE)
L_nocode_expired == Line("SIA-DCS", KnownAccount, TRUE, FALSE, FALSE)

Lines == {L_valid, L_badcrc, L_nocode, L_expired, L_unknown,
          L_oh, L_oh_unknown, L_garbage}

\* What the specification of the protocol says about a line.
IsKeepAlive(l) == l.tag = "OH"
IsFullEvent(l) == l.tag \in {"SIA-DCS", "ADM-CID"}
Malformed(l) == l.tag = "none"
Blank(l) == l.tag = "blank"

\* A valid line of a second configured account.
L_valid2 == Line("SIA-DCS", SecondAccount, TRUE, TRUE, TRUE)

\* The lines received by the thread-per-connection driver.
BaseLines == Lines \cup {L_blank, L_badcrc_nocode, L_nocode_expired, L_valid2}

\* tests/smoke_test.py, build_packet("1111"): "SIA-DCS"6002L0#1111[|Nri1/CL501]
\* and a timestamp, with its checksum and length in front.
L_smoke ==
    [Line("SIA-DCS", KnownAccount, TRUE, TRUE, TRUE)
        EXCEPT !.code = "CL", !.content = "|Nri1/CL501"]

\* The accounts configured with a key: SIAAccount("1111", "AAAAAAAAAAAAAAAA").
HasKey(account) == account = KnownAccount

\* A line for an account with a key whose block does not decrypt under it.
L_corrupt ==
    [Line("SIA-DCS", KnownAccount, TRUE, TRUE, TRUE)
        EXCEPT !.content = "9F3A", !.block = "corrupt"]

\* ------------------------------------------------------------------ state
VARIABLES
    \* SIAClient (sia/aio/client.py)
    accounts,       \* _accounts: the ids of the configured accounts
    nsrv,           \* server objects created so far; _server is the last one
    tstate,         \* per start(): the state of the task made by create_task
    stopped,        \* stop() has returned and start() was not called since
    \* SIAServerTCP (sia/aio/server.py), one object per start()
    srvAccounts,    \* accounts
    shutdown_flag,  \* shutdown_flag
    listenSrv,      \* the server object whose listening socket is bound (0: none)
    \* connections and their handle_line tasks
    pc,             \* where the handler of a connection is suspended
    csrv,           \* the server object whose handle_line serves the connection
    inbox,          \* lines received on the socket and not yet read
    peer,           \* the peer's side: "open", "eof" (closed), "reset"
    nsent,          \* lines the peer has sent
    out,            \* response bytes written to the connection, in order
    log             \* history: per chunk read, the response and the dispatch

VARIABLES
    \* BaseSIAServer (src/pysiaalarm/base_server.py) and its handler threads
    counts,         \* counts: the Counter shared by all connections
    tpc,            \* where each handler thread is
    tev,            \* the event a thread has parsed and is handling
    nlines,         \* chunks received so far, over all threads
    ncalls,         \* calls of the user function so far
    sent,           \* responses each thread has sent
    hist,           \* history: per thread and chunk, the counters it incremented
    rawlog          \* the raw-line log: the bag of the lines written to it

VARIABLES
    \* BaseEvent.valid_timestamp (sia/event.py)
    tscheck,        \* an event, the timeband of its account, and the verdict
    debouncer,      \* an AdaptiveDebounce object and the events it was given
    crcjob,         \* a message given to crc_calc, and what crc_calc returned
    sensor,         \* a code/label sensor or a binary contact sensor
    siadata         \* the SIAAlarmData object: codes, sensors, listeners, events

baseVars == <<counts, tpc, tev, nlines, ncalls, sent, hist, rawlog>>

clockVars == <<tscheck>>

debVars == <<debouncer>>

crcVars == <<crcjob>>

sensorVars == <<sensor>>

dataVars == <<siadata>>

aioVars == <<accounts, nsrv, tstate, stopped, srvAccounts, shutdown_flag,
             listenSrv, pc, csrv, inbox, peer, nsent, out, log>>

\* What the actions of one driver leave alone: the state of the others.
nonAioVars == <<baseVars, clockVars, debVars, crcVars, sensorVars, dataVars>>
nonBaseVars == <<aioVars, clockVars, debVars, crcVars, sensorVars, dataVars>>
nonClockVars == <<aioVars, baseVars, debVars, crcVars, sensorVars, dataVars>>
nonDebVars == <<aioVars, baseVars, clockVars, crcVars, sensorVars, dataVars>>
nonCrcVars == <<aioVars, baseVars, clockVars, debVars, sensorVars, dataVars>>
nonSensorVars == <<aioVars, baseVars, clockVars, debVars, crcVars, dataVars>>
nonDataVars == <<aioVars, baseVars, clockVars, debVars, crcVars, sensorVars>>

\* SIAAlarmData as its constructor leaves it: no codes, listeners or events.
\* created_codes and tasks belong to async_setup_entry of the sensor
\* platform, code_sensors are the SIAEventCodeSensor objects constructed, added
\* the codes add_code was called with, calls the listeners invoked for each
\* event.
NoData ==
    [setup |-> FALSE, codes |-> {}, created_codes |-> {}, tasks |-> <<>>,
     code_sensors |-> <<>>, listeners |-> <<>>, events |-> <<>>, calls |-> <<>>,
     removed |-> {}, added |-> <<>>]

\* crc_calc has not been called.
NoCrc == [st |-> "none", msg |-> <<>>, rest |-> <<>>, crc |-> 0, text |-> ""]

\* No sensor has been constructed. initial_state is the entry of
\* sia_data.initial_states for the sensor, now the time of the last event.
NoSensor ==
    [kind |-> "none", initial_state |-> "None", raw_count |-> 0,
     accepted_count |-> 0, last_accepted_ts |-> <<>>, recent |-> <<>>,
     window_size |-> 0, now |-> 0, trace |-> <<>>]


\* No AdaptiveDebounce object has been constructed.
NoDebouncer ==
    [made |-> FALSE, debounce_window |-> 0, safe_gap |-> 0,
     last_trigger_time |-> <<>>, last_event_time |-> 0, burst_history |-> <<>>,
     current_time |-> 0, trace |-> <<>>]


\* ------------------------------------------------------------------ events
\* sia/event.py: the event classes of the event-loop driver.
None == [cls |-> "None"]

SIAEvent(full_message, message_type, account, line, receiver, code) ==
    [cls |-> "SIAEvent", full_message |-> full_message,
     message_type |-> message_type, account |-> account, line |-> line,
     receiver |-> receiver, code |-> code, sia_account |-> account]

OHEvent(full_message, message_type, account, line, receiver) ==
    [cls |-> "OHEvent", full_message |-> full_message,
     message_type |-> message_type, account |-> account, line |-> line,
     receiver |-> receiver, code |-> "None", sia_account |-> account]

\* BaseEvent.valid_message: the checksum is not compared.
valid_message(ev) == TRUE

code_not_found(ev) == ev.code = "None"

SIAEvent_response(ev) == IF valid_message(ev) THEN "ACK" ELSE "NAK"

OHEvent_response(ev) == "DUH"

create_response(ev) ==
    IF ev.cls = "SIAEvent"
    THEN "\"ACK\"R" \o ev.receiver \o "L" \o ev.line \o "#" \o ev.account
    ELSE "\"DUH\""

\* ------------------------------------------------------------------ parser
HasTag(l) == l.tag \in {"SIA-DCS", "ADM-CID", "OH"}

\* The least element of a set of positions; 0 for the empty set (no match).
FirstOf(S) == IF S = {} THEN 0 ELSE CHOOSE i \in S : \A j \in S : i <= j

\* SIA_REGEX.search(message): the first quoted tag followed by #account.
SIA_REGEX_search(message) ==
    FirstOf({i \in 1..Len(message) : HasTag(message[i])})

\* re.search(r'L\d+', message) and re.search(r'R\d+', message), with defaults.
line_search(message) ==
    LET i == FirstOf({j \in 1..Len(message) : message[j].ln # ""})
    IN  IF i = 0 THEN "L0" ELSE message[i].ln

receiver_search(message) ==
    LET i == FirstOf({j \in 1..Len(message) : message[j].rcv # ""})
    IN  IF i = 0 THEN "R0" ELSE message[i].rcv

\* Characters of the classes the regular expressions of the parser use.
Digit == {"0", "1", "2", "3", "4", "5", "6", "7", "8", "9"}
Upper == {"A", "B", "C", "D", "E", "F", "G", "H", "I", "J", "K", "L", "M",
          "N", "O", "P", "Q", "R", "S", "T", "U", "V", "W", "X", "Y", "Z"}
Lower == {"a", "b", "c", "d", "e", "f", "g", "h", "i", "j", "k", "l", "m",
          "n", "o", "p", "q", "r", "s", "t", "u", "v", "w", "x", "y", "z"}
Word == Digit \cup Upper \cup Lower \cup {"_"}

\* The character of s at position i; "" outside s.
Ch(s, i) == IF i >= 1 /\ i <= Len(s) THEN SubSeq(s, i, i) ELSE ""

\* The end of the longest run of digits of s that starts at i (i - 1: no digit).
RECURSIVE DigitsEnd(_, _)
DigitsEnd(s, i) == IF Ch(s, i) \in Digit THEN DigitsEnd(s, i + 1) ELSE i - 1

\* re.search(r"\b(\d{3})\b", content): the first three digits that stand alone.
code_search(content) ==
    LET i == FirstOf({j \in 1..Len(content) :
                        /\ Ch(content, j) \in Digit
                        /\ Ch(content, j + 1) \in Digit
                        /\ Ch(content, j + 2) \in Digit
                        /\ Ch(content, j - 1) \notin Word
                        /\ Ch(content, j + 3) \notin Word})
    IN  IF i = 0 THEN "" ELSE SubSeq(content, i, i + 2)

\* re.search(r"Nri(\d+)([A-Z]{2})(\d+)", content): f"{code_str}-{zone_str}".
special_match(content) ==
    LET ok(j) == LET e == DigitsEnd(content, j + 3)
                 IN  /\ SubSeq(content, j, j + 2) = "Nri"
                     /\ e >= j + 3
                     /\ Ch(content, e + 1) \in Upper
                     /\ Ch(content, e + 2) \in Upper
                     /\ Ch(content, e + 3) \in Digit
        i == FirstOf({j \in 1..Len(content) : j + 2 <= Len(content) /\ ok(j)})
        e == DigitsEnd(content, i + 3)
    IN  IF i = 0 THEN ""
        ELSE SubSeq(content, e + 1, e + 2) \o "-"
             \o SubSeq(content, e + 3, DigitsEnd(content, e + 3))

\* The code _parse_message gives the event: "999", replaced by a 3-digit code
\* of the content, replaced by the code of the Nri form.
event_code(content) ==
    IF special_match(content) # "" THEN special_match(content)
    ELSE IF code_search(content) # "" THEN code_search(content)
    ELSE "999"

\* _parse_message without the test `account_id not in self.accounts`.
parse_message_unchecked(message, accts) ==
    LET m == SIA_REGEX_search(message)
    IN  IF m = 0 THEN None
        ELSE LET l == message[m]
                 line == line_search(message)
                 receiver == receiver_search(message)
             IN  IF l.tag = "OH"
                 THEN OHEvent(message, l.tag, l.account, line, receiver)
                 ELSE SIAEvent(message, l.tag, l.account, line, receiver,
                               event_code(l.content))

\* SIAServerTCP._parse_message: message is the chunk one read returned. The
\* first bracket of the chunk is that of the first line with a tag: a line
\* without a tag has no bracket.
parse_message(message, accts) ==
    LET m == SIA_REGEX_search(message)
    IN  IF m = 0 THEN None
        ELSE LET l == message[m]
                 line == line_search(message)
                 receiver == receiver_search(message)
             IN  IF l.account \notin accts THEN None
                 ELSE IF l.tag = "OH"
                 THEN OHEvent(message, l.tag, l.account, line, receiver)
                 ELSE SIAEvent(message, l.tag, l.account, line, receiver,
                               event_code(l.content))

\* ------------------------------------------------------------------ client
InitAio ==
    /\ accounts = {KnownAccount}
    /\ nsrv = 0
    /\ tstate = [g \in Servers |-> "none"]
    /\ stopped = FALSE
    /\ srvAccounts = [g \in Servers |-> {}]
    /\ shutdown_flag = [g \in Servers |-> FALSE]
    /\ listenSrv = 0
    /\ pc = [c \in Conns |-> "idle"]
    /\ csrv = [c \in Conns |-> 0]
    /\ inbox = [c \in Conns |-> <<>>]
    /\ peer = [c \in Conns |-> "open"]
    /\ nsent = 0
    /\ out = [c \in Conns |-> <<>>]
    /\ log = [c \in Conns |-> <<>>]

\* SIAClient.start: a new SIAServerTCP and a task that will run start_server.
SIAClient_start ==
    /\ nsrv < MaxStarts
    /\ nsrv' = nsrv + 1
    /\ srvAccounts' = [srvAccounts EXCEPT ![nsrv + 1] = accounts]
    /\ shutdown_flag' = [shutdown_flag EXCEPT ![nsrv + 1] = FALSE]
    /\ tstate' = [tstate EXCEPT ![nsrv + 1] = "pending"]
    /\ stopped' = FALSE
    /\ UNCHANGED nonAioVars
    /\ UNCHANGED <<accounts, listenSrv, pc, csrv, inbox, peer, nsent, out, log>>

\* The task of start(): asyncio.start_server binds the port and starts serving,
\* or fails when the port is still bound. The task is then done; the listening
\* socket stays open.
start_server_task(g) ==
    /\ tstate[g] = "pending"
    /\ IF listenSrv = 0
       THEN /\ listenSrv' = g
            /\ tstate' = [tstate EXCEPT ![g] = "done"]
       ELSE /\ listenSrv' = listenSrv
            /\ tstate' = [tstate EXCEPT ![g] = "failed"]
    /\ UNCHANGED nonAioVars
    /\ UNCHANGED <<accounts, nsrv, stopped, srvAccounts, shutdown_flag,
                   pc, csrv, inbox, peer, nsent, out, log>>

\* Task.cancel(): only a task that has not finished is cancelled.
task_cancel(st) == IF st = "pending" THEN "cancelled" ELSE st

\* SIAClient.stop: set the flag of the current server, cancel and await the task.
\* Awaiting a task that failed re-raises its error out of stop().
SIAClient_stop ==
    /\ IF nsrv > 0
       THEN /\ shutdown_flag' = [shutdown_flag EXCEPT ![nsrv] = TRUE]
            /\ tstate' = [tstate EXCEPT ![nsrv] = task_cancel(tstate[nsrv])]
            /\ stopped' = (tstate[nsrv] # "failed")
       ELSE /\ UNCHANGED <<shutdown_flag, tstate>>
            /\ stopped' = TRUE
    /\ UNCHANGED nonAioVars
    /\ UNCHANGED <<accounts, nsrv, srvAccounts, listenSrv,
                   pc, csrv, inbox, peer, nsent, out, log>>

\* The accounts a caller may assign to SIAClient.accounts.
AccountSets == {{KnownAccount}, {KnownAccount, UnknownAccount}, {}}

\* A setter that rebuilds _accounts only and leaves the server as it is.
SIAClient_set_accounts_client_only(as) ==
    /\ as # accounts
    /\ accounts' = as
    /\ UNCHANGED nonAioVars
    /\ UNCHANGED <<nsrv, tstate, stopped, srvAccounts, shutdown_flag, listenSrv,
                   pc, csrv, inbox, peer, nsent, out, log>>

\* SIAClient.accounts setter: rebuilds _accounts and, when a server object
\* exists, assigns the new mapping to the accounts of that server.
SIAClient_set_accounts(as) ==
    /\ as # accounts
    /\ accounts' = as
    /\ srvAccounts' = IF nsrv > 0 THEN [srvAccounts EXCEPT ![nsrv] = as]
                      ELSE srvAccounts
    /\ UNCHANGED nonAioVars
    /\ UNCHANGED <<nsrv, tstate, stopped, shutdown_flag, listenSrv,
                   pc, csrv, inbox, peer, nsent, out, log>>

\* ------------------------------------------------------------------ handler
Last(s) == s[Len(s)]

\* A loop head that does not look at the flag.
loop_head_unchecked(g) == "reading"

\* `while not self.shutdown_flag:` at the head of handle_line's loop; leaving the
\* loop runs writer.close().
loop_head(g) == IF shutdown_flag[g] THEN "closed" ELSE "reading"

\* The listening socket accepts a connection and starts handle_line for it.
accept(c) ==
    /\ listenSrv # 0
    /\ pc[c] = "idle"
    /\ csrv' = [csrv EXCEPT ![c] = listenSrv]
    /\ pc' = [pc EXCEPT ![c] = loop_head(listenSrv)]
    /\ UNCHANGED nonAioVars
    /\ UNCHANGED <<accounts, nsrv, tstate, stopped, srvAccounts, shutdown_flag,
                   listenSrv, inbox, peer, nsent, out, log>>

\* The peer of connection c.
peer_send(c, l) ==
    /\ pc[c] \notin {"idle", "closed"}
    /\ peer[c] = "open"
    /\ nsent < MaxSend
    /\ nsent' = nsent + 1
    /\ inbox' = [inbox EXCEPT ![c] = Append(@, l)]
    /\ UNCHANGED nonAioVars
    /\ UNCHANGED <<accounts, nsrv, tstate, stopped, srvAccounts, shutdown_flag,
                   listenSrv, pc, csrv, peer, out, log>>

peer_close(c) ==
    /\ pc[c] \notin {"idle", "closed"}
    /\ peer[c] = "open"
    /\ peer' = [peer EXCEPT ![c] = "eof"]
    /\ UNCHANGED nonAioVars
    /\ UNCHANGED <<accounts, nsrv, tstate, stopped, srvAccounts, shutdown_flag,
                   listenSrv, pc, csrv, inbox, nsent, out, log>>

peer_reset(c) ==
    /\ pc[c] \notin {"idle", "closed"}
    /\ peer[c] = "open"
    /\ peer' = [peer EXCEPT ![c] = "reset"]
    /\ UNCHANGED nonAioVars
    /\ UNCHANGED <<accounts, nsrv, tstate, stopped, srvAccounts, shutdown_flag,
                   listenSrv, pc, csrv, inbox, nsent, out, log>>

\* A read that resumes only while no callback of another connection is running:
\* what a callback that blocks the event loop would cause.
read_ready_blocking(c) ==
    /\ pc[c] = "reading" /\ (inbox[c] # <<>> \/ peer[c] # "open")
    /\ \A d \in Conns \ {c} : pc[d] # "dispatching"

\* `await reader.read(1000)` can return: data is buffered, or the stream ended.
read_ready(c) == pc[c] = "reading" /\ (inbox[c] # <<>> \/ peer[c] # "open")

Dispatching == {d \in Conns : pc[d] = "dispatching"}

LogEntry(chunk, parsed, event, rsp) ==
    [chunk |-> chunk, parsed |-> parsed, event |-> event, rsp |-> rsp,
     disp |-> FALSE, susp |-> Dispatching]

\* A handler that starts the callback for an event before writing its response.
handle_line_dispatch_first(c) ==
    LET data == inbox[c]
        event == parse_message(data, srvAccounts[csrv[c]])
    IN  /\ inbox' = [inbox EXCEPT ![c] = <<>>]
        /\ IF peer[c] # "open" \/ data = <<>>
           THEN /\ pc' = [pc EXCEPT ![c] = "closed"]
                /\ UNCHANGED log
           ELSE IF event # None
           THEN /\ pc' = [pc EXCEPT ![c] = "dispatching"]
                /\ log' = [log EXCEPT ![c] =
                             Append(@, [LogEntry(data, TRUE, event,
                                                 create_response(event))
                                        EXCEPT !.disp = TRUE])]
           ELSE /\ pc' = [pc EXCEPT ![c] = loop_head(csrv[c])]
                /\ log' = [log EXCEPT ![c] = Append(@, LogEntry(data, TRUE, None, ""))]
        /\ UNCHANGED nonAioVars
        /\ UNCHANGED <<accounts, nsrv, tstate, stopped, srvAccounts, shutdown_flag,
                       listenSrv, csrv, peer, nsent, out>>

\* handle_line from the return of reader.read to the next await: the read returns
\* everything buffered; an ended stream or a reset leaves the loop; otherwise the
\* chunk is parsed and, for an event, the response is written.
handle_line_read_body(c) ==
    LET data == inbox[c]
        event == parse_message(data, srvAccounts[csrv[c]])
    IN  /\ inbox' = [inbox EXCEPT ![c] = <<>>]
        /\ IF peer[c] = "reset" \/ data = <<>>
           THEN /\ pc' = [pc EXCEPT ![c] = "closed"]
                /\ UNCHANGED <<out, log>>
           ELSE IF peer[c] = "eof"
           THEN /\ pc' = [pc EXCEPT ![c] = "closed"]
                /\ log' = [log EXCEPT ![c] = Append(@, LogEntry(data, FALSE, None, ""))]
                /\ UNCHANGED out
           ELSE IF event # None
           THEN /\ out' = [out EXCEPT ![c] = Append(@, create_response(event))]
                /\ pc' = [pc EXCEPT ![c] = "draining"]
                /\ log' = [log EXCEPT ![c] =
                             Append(@, LogEntry(data, TRUE, event, create_response(event)))]
           ELSE /\ pc' = [pc EXCEPT ![c] = loop_head(csrv[c])]
                /\ log' = [log EXCEPT ![c] = Append(@, LogEntry(data, TRUE, None, ""))]
                /\ UNCHANGED out
        /\ UNCHANGED nonAioVars
        /\ UNCHANGED <<accounts, nsrv, tstate, stopped, srvAccounts, shutdown_flag,
                       listenSrv, csrv, peer, nsent>>

handle_line_read(c) == read_ready(c) /\ handle_line_read_body(c)

\* A drain whose failure stops the whole server: the flag every handler of the
\* server checks is set.
handle_line_drain_fatal(c) ==
    /\ pc[c] = "draining"
    /\ IF peer[c] = "reset"
       THEN /\ pc' = [pc EXCEPT ![c] = "closed"]
            /\ shutdown_flag' = [shutdown_flag EXCEPT ![csrv[c]] = TRUE]
            /\ UNCHANGED log
       ELSE /\ pc' = [pc EXCEPT ![c] = "dispatching"]
            /\ log' = [log EXCEPT ![c][Len(log[c])].disp = TRUE]
            /\ UNCHANGED shutdown_flag
    /\ UNCHANGED nonAioVars
    /\ UNCHANGED <<accounts, nsrv, tstate, stopped, srvAccounts,
                   listenSrv, csrv, inbox, peer, nsent, out>>

\* `await writer.drain()` returns (or raises on a reset connection), then
\* `await self.async_func(event)` starts the callback for whatever event was parsed.
handle_line_drain(c) ==
    /\ pc[c] = "draining"
    /\ IF peer[c] = "reset"
       THEN /\ pc' = [pc EXCEPT ![c] = "closed"]
            /\ UNCHANGED log
       ELSE /\ pc' = [pc EXCEPT ![c] = "dispatching"]
            /\ log' = [log EXCEPT ![c][Len(log[c])].disp = TRUE]
    /\ UNCHANGED nonAioVars
    /\ UNCHANGED <<accounts, nsrv, tstate, stopped, srvAccounts, shutdown_flag,
                   listenSrv, csrv, inbox, peer, nsent, out>>

\* The callback returns: back to the head of the loop.
async_func_return(c) ==
    /\ pc[c] = "dispatching"
    /\ pc' = [pc EXCEPT ![c] = loop_head(csrv[c])]
    /\ UNCHANGED nonAioVars
    /\ UNCHANGED <<accounts, nsrv, tstate, stopped, srvAccounts, shutdown_flag,
                   listenSrv, csrv, inbox, peer, nsent, out, log>>

\* An error handler that returns from handle_line instead of breaking.
on_callback_error_return(c) == "returned"

\* What `except Exception` of handle_line does with an error of the callback:
\* log it, break, and close the writer.
on_callback_error(c) == "closed"

\* The callback raises.
async_func_raise(c) ==
    /\ pc[c] = "dispatching"
    /\ pc' = [pc EXCEPT ![c] = on_callback_error(c)]
    /\ UNCHANGED nonAioVars
    /\ UNCHANGED <<accounts, nsrv, tstate, stopped, srvAccounts, shutdown_flag,
                   listenSrv, csrv, inbox, peer, nsent, out, log>>

\* ------------------------------------------------- thread-per-connection driver
Threads == 1..MaxThreads

\* const.py: the names of the counters.
COUNTER_EVENTS == "events"
COUNTER_ACCOUNT == "account"
COUNTER_FORMAT == "format"
COUNTER_CRC == "crc"
COUNTER_CODE == "code"
COUNTER_TIMESTAMP == "timestamp"
COUNTER_USER_CODE == "user_code"
VALID_EVENTS == "valid_events"

ReasonCounters == {COUNTER_ACCOUNT, COUNTER_FORMAT, COUNTER_CRC, COUNTER_CODE,
                   COUNTER_TIMESTAMP}
CounterNames == ReasonCounters \cup {COUNTER_EVENTS, COUNTER_USER_CODE, VALID_EVENTS}

\* BaseSIAServer.accounts, set by the constructor.
ServerAccounts == {KnownAccount, SecondAccount}

\* pysiaalarm/event.py is not part of the sources; the event classes of this
\* driver follow the specification (sections 3, 4.3 and 4.4).
NAKEvent == [cls |-> "NAKEvent"]

\* The receiver or line id of a marker such as "L0": the digits after the letter,
\* and the zero default when the line has no such marker.
id_of(marker) == IF marker = "" THEN "0" ELSE SubSeq(marker, 2, Len(marker))

\* SIAEvent.from_line: raises for an unrecognised tag and for an unknown account,
\* gives an OHEvent for a keep-alive, and otherwise an event with its flags.
from_line(line, accts) ==
    IF ~HasTag(line) THEN [cls |-> "EventFormatError"]
    ELSE IF line.account \notin accts THEN [cls |-> "NoAccountError"]
    ELSE IF line.block = "corrupt" THEN [cls |-> "EventFormatError"]
    ELSE IF line.tag = "OH"
    THEN [cls |-> "OHEvent", account |-> line.account,
          receiver |-> id_of(line.rcv), line |-> id_of(line.ln)]
    ELSE [cls |-> "SIAEvent", account |-> line.account,
          receiver |-> id_of(line.rcv), line |-> id_of(line.ln),
          sia_account |-> line.account,
          crc_match |-> line.crcOk,
          code |-> IF line.code # "" THEN line.code ELSE "None",
          timestamp_in_band |-> line.tsOk]

base_valid_message(ev) == ev.crc_match
base_code_not_found(ev) == ev.code = "None"
base_valid_timestamp(ev) == ev.timestamp_in_band

\* The response of an event: section 4.4.
base_response(ev) ==
    IF ev.cls = "OHEvent" THEN "DUH"
    ELSE IF ev.cls = "NAKEvent" THEN "NAK"
    ELSE IF /\ base_valid_message(ev)
            /\ ev.sia_account # "None"
            /\ ~base_code_not_found(ev)
            /\ base_valid_timestamp(ev)
    THEN "ACK"
    ELSE "NAK"

base_create_response(ev) ==
    IF base_response(ev) = "ACK"
    THEN "\"ACK\"R" \o ev.receiver \o "L" \o ev.line \o "#" \o ev.account
    ELSE "\"" \o base_response(ev) \o "\""

\* Counter.increment and Counter.increment_valid_events: one counter, by one,
\* safe under concurrent use.
increment(cnts, counter) == [cnts EXCEPT ![counter] = @ + 1]

\* BaseSIAServer.log_and_count: logs, then increments the counter.
log_and_count(cnts, counter) == increment(cnts, counter)

RECURSIVE count_all(_, _)
\* The calls of log_and_count one call of parse_and_check_event makes, in order.
count_all(cnts, counters) ==
    IF counters = <<>> THEN cnts
    ELSE count_all(log_and_count(cnts, Head(counters)), Tail(counters))

\* The same checks as independent `if`s: every failing check is counted.
check_event_all(event) ==
    (IF ~base_valid_message(event) THEN <<COUNTER_CRC>> ELSE <<>>)
    \o (IF event.sia_account = "None" THEN <<COUNTER_ACCOUNT>> ELSE <<>>)
    \o (IF base_code_not_found(event) THEN <<COUNTER_CODE>> ELSE <<>>)
    \o (IF ~base_valid_timestamp(event) THEN <<COUNTER_TIMESTAMP>> ELSE <<>>)

\* The if/elif chain at the end of parse_and_check_event: the counter of the
\* first check that fails.
check_event(event) ==
    IF ~base_valid_message(event) THEN <<COUNTER_CRC>>
    ELSE IF event.sia_account = "None" THEN <<COUNTER_ACCOUNT>>
    ELSE IF base_code_not_found(event) THEN <<COUNTER_CODE>>
    ELSE IF ~base_valid_timestamp(event) THEN <<COUNTER_TIMESTAMP>>
    ELSE <<>>

\* parse_and_check_event with the two `except` branches swapped: a line of an
\* unknown account is counted as a format error.
parse_and_check_event_swapped(line, accts) ==
    IF Blank(line) THEN [event |-> None, counted |-> <<>>, raw |-> FALSE]
    ELSE LET event == from_line(line, accts)
         IN  IF event.cls = "NoAccountError"
             THEN [event |-> NAKEvent, counted |-> <<COUNTER_EVENTS, COUNTER_FORMAT>>,
                   raw |-> TRUE]
             ELSE IF event.cls = "EventFormatError"
             THEN [event |-> NAKEvent, counted |-> <<COUNTER_EVENTS, COUNTER_ACCOUNT>>,
                   raw |-> TRUE]
             ELSE IF event.cls = "OHEvent"
             THEN [event |-> event, counted |-> <<COUNTER_EVENTS>>, raw |-> TRUE]
             ELSE [event |-> event,
                   counted |-> <<COUNTER_EVENTS>> \o check_event(event),
                   raw |-> TRUE]

\* parse_and_check_event with the line logged and counted before the test for
\* an empty line.
parse_and_check_event_eager(line, accts) ==
    IF Blank(line)
    THEN [event |-> None, counted |-> <<COUNTER_EVENTS>>, raw |-> TRUE]
    ELSE LET event == from_line(line, accts)
         IN  IF event.cls = "NoAccountError"
             THEN [event |-> NAKEvent, counted |-> <<COUNTER_EVENTS, COUNTER_ACCOUNT>>,
                   raw |-> TRUE]
             ELSE IF event.cls = "EventFormatError"
             THEN [event |-> NAKEvent, counted |-> <<COUNTER_EVENTS, COUNTER_FORMAT>>,
                   raw |-> TRUE]
             ELSE IF event.cls = "OHEvent"
             THEN [event |-> event, counted |-> <<COUNTER_EVENTS>>, raw |-> TRUE]
             ELSE [event |-> event,
                   counted |-> <<COUNTER_EVENTS>> \o check_event(event),
                   raw |-> TRUE]

\* BaseSIAServer.parse_and_check_event: the event returned, the counters passed
\* to log_and_count, in order, and whether the line went to the raw-line log.
parse_and_check_event(line, accts) ==
    IF Blank(line) THEN [event |-> None, counted |-> <<>>, raw |-> FALSE]
    ELSE LET event == from_line(line, accts)
         IN  IF event.cls = "NoAccountError"
             THEN [event |-> NAKEvent, counted |-> <<COUNTER_EVENTS, COUNTER_ACCOUNT>>,
                   raw |-> TRUE]
             ELSE IF event.cls = "EventFormatError"
             THEN [event |-> NAKEvent, counted |-> <<COUNTER_EVENTS, COUNTER_FORMAT>>,
                   raw |-> TRUE]
             ELSE IF event.cls = "OHEvent"
             THEN [event |-> event, counted |-> <<COUNTER_EVENTS>>, raw |-> TRUE]
             ELSE [event |-> event,
                   counted |-> <<COUNTER_EVENTS>> \o check_event(event),
                   raw |-> TRUE]

\* The guard of func_wrap: only a SIAEvent whose response is ACK goes on.
func_wrap_calls(event) ==
    event # None /\ event.cls = "SIAEvent" /\ base_response(event) = "ACK"

InitBase ==
    /\ counts = [k \in CounterNames |-> 0]
    /\ tpc = [t \in Threads |-> "recv"]
    /\ tev = [t \in Threads |-> None]
    /\ nlines = 0
    /\ ncalls = 0
    /\ sent = [t \in Threads |-> <<>>]
    /\ hist = [t \in Threads |-> <<>>]
    /\ rawlog = EmptyBag

\* `self._raw_logger.info("%s", line)` without its try: a failing write raises.
raw_logger_info_unguarded(rlog, line, ok) ==
    [log |-> IF ok THEN rlog (+) SetToBag({line}) ELSE rlog, raised |-> ~ok]

\* `try: self._raw_logger.info("%s", line)` / `except Exception: pass`: the line
\* is added to the log unless the write fails (ok is FALSE); nothing is raised.
\* The log is kept as a bag: the order of its lines is not modelled.
raw_logger_info(rlog, line, ok) ==
    [log |-> IF ok THEN rlog (+) SetToBag({line}) ELSE rlog, raised |-> FALSE]

\* A handler thread receives a chunk and runs parse_and_check_event on it; ok
\* tells whether a write to the raw-line log succeeds. An exception leaving
\* parse_and_check_event ends the handler thread.
handler_recv_io(t, l, ok) ==
    LET r == parse_and_check_event(l, ServerAccounts)
        w == IF r.raw THEN raw_logger_info(rawlog, l, ok)
             ELSE [log |-> rawlog, raised |-> FALSE]
    IN  /\ tpc[t] = "recv"
        /\ nlines < MaxLines
        /\ nlines' = nlines + 1
        /\ rawlog' = w.log
        /\ IF w.raised
           THEN /\ tpc' = [tpc EXCEPT ![t] = "dead"]
                /\ hist' = [hist EXCEPT ![t] =
                              Append(@, [line |-> l, event |-> None,
                                         counted |-> <<>>, raw |-> r.raw,
                                         rawok |-> ok, rsp |-> "",
                                         called |-> FALSE, raised |-> FALSE])]
                /\ UNCHANGED <<counts, tev>>
           ELSE /\ counts' = count_all(counts, r.counted)
                /\ tev' = [tev EXCEPT ![t] = r.event]
                /\ tpc' = [tpc EXCEPT ![t] =
                             IF r.event = None THEN "recv" ELSE "respond"]
                /\ hist' = [hist EXCEPT ![t] =
                              Append(@, [line |-> l, event |-> r.event,
                                         counted |-> r.counted, raw |-> r.raw,
                                         rawok |-> ok, rsp |-> "",
                                         called |-> FALSE, raised |-> FALSE])]
        /\ UNCHANGED <<ncalls, sent>>
        /\ UNCHANGED nonBaseVars

\* The same with a raw-line log whose writes succeed.
handler_recv(t, l) == handler_recv_io(t, l, TRUE)

\* The handler sends the response of the event, then calls func_wrap.
handler_respond(t) ==
    /\ tpc[t] = "respond"
    /\ sent' = [sent EXCEPT ![t] = Append(@, base_create_response(tev[t]))]
    /\ hist' = [hist EXCEPT ![t][Len(hist[t])].rsp = base_response(tev[t])]
    /\ tpc' = [tpc EXCEPT ![t] = "func_wrap"]
    /\ UNCHANGED <<counts, tev, nlines, ncalls>>
    /\ UNCHANGED <<rawlog, nonBaseVars>>

\* func_wrap with a counter that is not safe under concurrent use: an increment
\* made while another thread is in the user function is lost.
func_wrap_unsafe(t) ==
    /\ tpc[t] = "func_wrap"
    /\ IF func_wrap_calls(tev[t])
       THEN /\ counts' = IF \E u \in Threads \ {t} : tpc[u] = "func"
                         THEN counts
                         ELSE increment(counts, VALID_EVENTS)
            /\ ncalls' = ncalls + 1
            /\ hist' = [hist EXCEPT ![t][Len(hist[t])] =
                          [@ EXCEPT !.counted = Append(@, VALID_EVENTS),
                                    !.called = TRUE]]
            /\ tpc' = [tpc EXCEPT ![t] = "func"]
       ELSE /\ tpc' = [tpc EXCEPT ![t] = "recv"]
            /\ UNCHANGED <<counts, ncalls, hist>>
    /\ UNCHANGED <<tev, nlines, sent>>
    /\ UNCHANGED <<rawlog, nonBaseVars>>

\* BaseSIAServer.func_wrap up to the call of the user function.
func_wrap(t) ==
    /\ tpc[t] = "func_wrap"
    /\ IF func_wrap_calls(tev[t])
       THEN /\ counts' = increment(counts, VALID_EVENTS)
            /\ ncalls' = ncalls + 1
            /\ hist' = [hist EXCEPT ![t][Len(hist[t])] =
                          [@ EXCEPT !.counted = Append(@, VALID_EVENTS),
                                    !.called = TRUE]]
            /\ tpc' = [tpc EXCEPT ![t] = "func"]
       ELSE /\ tpc' = [tpc EXCEPT ![t] = "recv"]
            /\ UNCHANGED <<counts, ncalls, hist>>
    /\ UNCHANGED <<tev, nlines, sent>>
    /\ UNCHANGED <<rawlog, nonBaseVars>>

\* The user function returns.
func_return(t) ==
    /\ tpc[t] = "func"
    /\ tpc' = [tpc EXCEPT ![t] = "recv"]
    /\ UNCHANGED <<counts, tev, nlines, ncalls, sent, hist>>
    /\ UNCHANGED <<rawlog, nonBaseVars>>

\* The user function raises: `except Exception` of func_wrap counts and goes on.
func_raise(t) ==
    /\ tpc[t] = "func"
    /\ counts' = log_and_count(counts, COUNTER_USER_CODE)
    /\ hist' = [hist EXCEPT ![t][Len(hist[t])] =
                  [@ EXCEPT !.counted = Append(@, COUNTER_USER_CODE),
                            !.raised = TRUE]]
    /\ tpc' = [tpc EXCEPT ![t] = "recv"]
    /\ UNCHANGED <<tev, nlines, ncalls, sent>>
    /\ UNCHANGED <<rawlog, nonBaseVars>>

NextBase ==
    \/ \E t \in Threads, l \in BaseLines : handler_recv(t, l)
    \/ \E t \in Threads : handler_respond(t)
    \/ \E t \in Threads : func_wrap(t)
    \/ \E t \in Threads : func_return(t)
    \/ \E t \in Threads : func_raise(t)

\* The thread-per-connection driver with a raw-line log whose writes may fail.
RawLines == {L_valid, L_badcrc, L_garbage, L_blank}

NextRaw ==
    \/ \E t \in Threads, l \in RawLines, ok \in BOOLEAN : handler_recv_io(t, l, ok)
    \/ \E t \in Threads : handler_respond(t)
    \/ \E t \in Threads : func_wrap(t)
    \/ \E t \in Threads : func_return(t)
    \/ \E t \in Threads : func_raise(t)

\* ------------------------------------------------------------ valid_timestamp
\* Times are whole seconds. An account's allowed_timeband is <<>> for None and
\* <<T>> for a tolerance of T seconds; an event's timestamp is <<>> for None
\* and <<t>> for the time t.
\* datetime.now(): the time at which the check runs.
Now == 1000

\* tolerance_seconds of valid_timestamp.
tolerance_seconds == 300

Timebands == {<<>>, <<40>>, <<300>>, <<600>>}

Ages == {0, 39, 40, 41, 299, 300, 301, 599, 600, 601}

Timestamps == {<<>>} \cup {<<Now - a>> : a \in Ages} \cup {<<Now + a>> : a \in Ages}

\* valid_timestamp without its two early returns.
valid_timestamp_always_checked(sia_account, allowed_timeband, timestamp, current_time) ==
    IF timestamp # <<>>
    THEN /\ current_time <= timestamp[1] + tolerance_seconds
         /\ timestamp[1] <= current_time + tolerance_seconds
    ELSE TRUE

\* BaseEvent.valid_timestamp: True for an event without account (sia_account
\* is FALSE) or whose account has no timeband; otherwise current_min <=
\* event_time <= current_plus, both 300 seconds from the current time.
valid_timestamp(sia_account, allowed_timeband, timestamp, current_time) ==
    IF ~sia_account THEN TRUE
    ELSE IF allowed_timeband = <<>> THEN TRUE
    ELSE IF timestamp # <<>>
    THEN LET event_time == timestamp[1]
         IN  /\ current_time <= event_time + tolerance_seconds
             /\ event_time <= current_time + tolerance_seconds
    ELSE TRUE

NoCheck == [st |-> "none", sia_account |-> FALSE, allowed_timeband |-> <<>>,
            timestamp |-> <<>>, valid |-> TRUE, counted |-> <<>>, rsp |-> ""]

\* The events the check is given: with an account and its timeband, or without
\* an account (and so without a timeband).
ParsedEvents ==
    {[NoCheck EXCEPT !.st = "parsed", !.sia_account = TRUE,
                     !.allowed_timeband = b, !.timestamp = t] :
         b \in Timebands, t \in Timestamps}
    \cup {[NoCheck EXCEPT !.st = "parsed", !.timestamp = t] : t \in Timestamps}

\* An event with a matching checksum and a code, at the last checks of
\* parse_and_check_event.
InitClock ==
    /\ InitAio
    /\ InitBase
    /\ debouncer = NoDebouncer
    /\ crcjob = NoCrc
    /\ sensor = NoSensor
    /\ siadata = NoData
    /\ tscheck \in ParsedEvents

\* `elif not event.sia_account: ...` and `elif not event.valid_timestamp:
\* self.log_and_count(COUNTER_TIMESTAMP, ...)`, and the response of the event:
\* Reject without an account or when the timestamp is not valid.
check_timestamp ==
    LET v == valid_timestamp(tscheck.sia_account, tscheck.allowed_timeband,
                             tscheck.timestamp, Now)
    IN  /\ tscheck.st = "parsed"
        /\ tscheck' = [tscheck EXCEPT
                          !.st = "checked",
                          !.valid = v,
                          !.counted = IF ~tscheck.sia_account THEN <<COUNTER_ACCOUNT>>
                                      ELSE IF v THEN <<>> ELSE <<COUNTER_TIMESTAMP>>,
                          !.rsp = IF tscheck.sia_account /\ v THEN "ACK" ELSE "NAK"]
        /\ UNCHANGED nonClockVars

\* The event is discarded and the next one is parsed.
next_event ==
    /\ tscheck.st = "checked"
    /\ tscheck' \in ParsedEvents
    /\ UNCHANGED nonClockVars

NextClock == check_timestamp \/ next_event

\* ----------------------------------------------------------- AdaptiveDebounce
\* Times are in ticks of a tenth of a second. adaptation_factor is 1.2, kept as
\* the fraction adaptation_factor_num / WindowScale; debounce_window is kept
\* multiplied by WindowScale, so that the products of the code stay integers.
MaxEvents == 4
adaptation_factor_num == 12
WindowScale == 10
max_history_len == 10

InitialWindows == {1, 10}
SafeGaps == {3, 5}
Starts == {0, 3}
Intervals == {2, 4, 6, 20}

Max2(a, b) == IF a >= b THEN a ELSE b

RECURSIVE SeqMax(_)
SeqMax(q) == IF Len(q) = 1 THEN q[1] ELSE Max2(Head(q), SeqMax(Tail(q)))

\* AdaptiveDebounce(initial_window, safe_gap); current_time is the time of the
\* next event, trace the events given so far with the answers.
AdaptiveDebounce(initial_window, safe_gap, start_time) ==
    [made |-> TRUE, debounce_window |-> initial_window * WindowScale,
     safe_gap |-> safe_gap,
     last_trigger_time |-> <<>>, last_event_time |-> 0, burst_history |-> <<>>,
     current_time |-> start_time, trace |-> <<>>]

update_history(self, duration) ==
    LET h == Append(self.burst_history, duration)
    IN  [self EXCEPT !.burst_history =
                        IF Len(h) > max_history_len THEN Tail(h) ELSE h]

\* A recalculation that takes the target as it is, without the max.
recalculate_window_replace(self) ==
    IF self.burst_history = <<>> THEN self
    ELSE [self EXCEPT !.debounce_window =
                         SeqMax(self.burst_history) * adaptation_factor_num]

recalculate_window(self) ==
    IF self.burst_history = <<>> THEN self
    ELSE [self EXCEPT !.debounce_window =
                         Max2(@, SeqMax(self.burst_history) * adaptation_factor_num)]

\* process_event without the leak detection of its step 2.
process_event_no_leak(self, timestamp) ==
    IF self.last_trigger_time = <<>>
    THEN [self |-> [self EXCEPT !.last_trigger_time = <<timestamp>>,
                                !.last_event_time = timestamp],
          result |-> TRUE]
    ELSE LET dt_trigger == timestamp - self.last_trigger_time[1]
         IN  IF dt_trigger * WindowScale < self.debounce_window
             THEN [self |-> [self EXCEPT !.last_event_time = timestamp],
                   result |-> FALSE]
             ELSE [self |-> [self EXCEPT !.last_trigger_time = <<timestamp>>,
                                         !.last_event_time = timestamp],
                   result |-> TRUE]

\* process_event(timestamp): the object after the call, and the value returned.
process_event(self, timestamp) ==
    IF self.last_trigger_time = <<>>
    THEN [self |-> [self EXCEPT !.last_trigger_time = <<timestamp>>,
                                !.last_event_time = timestamp],
          result |-> TRUE]
    ELSE LET last_trigger_time == self.last_trigger_time[1]
             dt_trigger == timestamp - last_trigger_time
             dt_last == timestamp - self.last_event_time
         IN  IF dt_trigger * WindowScale < self.debounce_window
             THEN [self |-> [self EXCEPT !.last_event_time = timestamp],
                   result |-> FALSE]
             ELSE IF dt_last < self.safe_gap /\ self.last_event_time # 0
             THEN LET current_burst_duration == timestamp - last_trigger_time
                      new_suggested_window ==
                          current_burst_duration * adaptation_factor_num
                  IN  [self |-> [self EXCEPT
                                    !.debounce_window = Max2(@, new_suggested_window),
                                    !.last_event_time = timestamp],
                       result |-> FALSE]
             ELSE LET prev_burst_duration ==
                          self.last_event_time - last_trigger_time
                      recorded ==
                          IF last_trigger_time # 0 /\ prev_burst_duration > 0
                          THEN recalculate_window(
                                   update_history(self, prev_burst_duration))
                          ELSE self
                  IN  [self |-> [recorded EXCEPT
                                    !.last_trigger_time = <<timestamp>>,
                                    !.last_event_time = timestamp],
                       result |-> TRUE]

InitDebounce ==
    /\ InitAio
    /\ InitBase
    /\ tscheck = NoCheck
    /\ crcjob = NoCrc
    /\ sensor = NoSensor
    /\ siadata = NoData
    /\ \E w \in InitialWindows, g \in SafeGaps, t \in Starts :
           debouncer = AdaptiveDebounce(w, g, t)

\* The caller gives the event of current_time to process_event, then waits.
send_event(interval) ==
    LET r == process_event(debouncer, debouncer.current_time)
    IN  /\ debouncer.made
        /\ Len(debouncer.trace) < MaxEvents
        /\ debouncer' =
               [r.self EXCEPT
                   !.current_time = @ + interval,
                   !.trace = Append(@,
                       [timestamp |-> debouncer.current_time,
                        result |-> r.result,
                        debounce_window |-> debouncer.debounce_window,
                        last_trigger_time |-> debouncer.last_trigger_time,
                        last_event_time |-> debouncer.last_event_time])]
        /\ UNCHANGED nonDebVars

NextDebounce == \E i \in Intervals : send_event(i)

\* ------------------------------------------------------------------- crc_calc
\* A message is the sequence of its bytes (msg.encode()).
MaxMsgLen == 2
POLY == 40961

Bytes == {0, 1, 34, 65, 128, 195, 255}

RECURSIVE SeqsUpTo(_, _)
SeqsUpTo(S, n) ==
    IF n = 0 THEN {<<>>}
    ELSE LET shorter == SeqsUpTo(S, n - 1)
         IN  shorter \cup {Append(q, b) : q \in shorter, b \in S}

Messages == SeqsUpTo(Bytes, MaxMsgLen)

\* `a ^ b` of non-negative integers, bit by bit.
RECURSIVE Xor(_, _)
Xor(a, b) ==
    IF a = 0 THEN b
    ELSE IF b = 0 THEN a
    ELSE (((a % 2) + (b % 2)) % 2) + 2 * Xor(a \div 2, b \div 2)

\* One pass of the inner loop without `temp ^= crc & 1`.
crc_bit_no_feedback(crc, temp) ==
    [crc |-> IF temp % 2 = 1 THEN Xor(crc \div 2, POLY) ELSE crc \div 2,
     temp |-> temp \div 2]

\* One pass of the inner loop of crc_calc: `temp ^= crc & 1; crc >>= 1;
\* if temp & 1: crc ^= 0xA001; temp >>= 1`.
crc_bit(crc, temp) ==
    LET temp1 == Xor(temp, crc % 2)
        crc1 == crc \div 2
    IN  [crc |-> IF temp1 % 2 = 1 THEN Xor(crc1, POLY) ELSE crc1,
         temp |-> temp1 \div 2]

\* `for _ in range(8)`, with n passes still to go.
RECURSIVE crc_bits(_, _, _)
crc_bits(crc, temp, n) ==
    IF n = 0 THEN crc
    ELSE LET r == crc_bit(crc, temp) IN crc_bits(r.crc, r.temp, n - 1)

\* "%x" % n.
RECURSIVE format_x(_)
format_x(n) ==
    LET d == SubSeq("0123456789abcdef", (n % 16) + 1, (n % 16) + 1)
    IN  IF n < 16 THEN d ELSE format_x(n \div 16) \o d

\* "%04x" % n: padded with zeros to four characters, never cut.
RECURSIVE zero_pad(_, _)
zero_pad(t, width) == IF Len(t) >= width THEN t ELSE zero_pad("0" \o t, width)

format_04x(n) == zero_pad(format_x(n), 4)

\* str.upper() of a string of hex digits.
RECURSIVE upper(_)
upper(t) ==
    IF Len(t) = 0 THEN ""
    ELSE LET ch == SubSeq(t, 1, 1)
             up == IF ch = "a" THEN "A" ELSE IF ch = "b" THEN "B"
                   ELSE IF ch = "c" THEN "C" ELSE IF ch = "d" THEN "D"
                   ELSE IF ch = "e" THEN "E" ELSE IF ch = "f" THEN "F" ELSE ch
         IN  up \o upper(SubSeq(t, 2, Len(t)))

InitCrc ==
    /\ InitAio
    /\ InitBase
    /\ tscheck = NoCheck
    /\ debouncer = NoDebouncer
    /\ sensor = NoSensor
    /\ siadata = NoData
    /\ \E m \in Messages :
           crcjob = [NoCrc EXCEPT !.st = "loop", !.msg = m, !.rest = m]

\* crc_calc, one pass of `for letter in msg.encode()`: `temp = letter`, then
\* the eight passes of the inner loop.
crc_calc_letter ==
    /\ crcjob.st = "loop"
    /\ crcjob.rest # <<>>
    /\ crcjob' = [crcjob EXCEPT !.crc = crc_bits(@, Head(crcjob.rest), 8),
                                !.rest = Tail(@)]
    /\ UNCHANGED nonCrcVars

\* crc_calc after its loop: `return ("%04x" % crc).upper()`.
crc_calc_return ==
    /\ crcjob.st = "loop"
    /\ crcjob.rest = <<>>
    /\ crcjob' = [crcjob EXCEPT !.st = "done",
                                !.text = upper(format_04x(crcjob.crc))]
    /\ UNCHANGED nonCrcVars

\* build_packet calls crc_calc for another line.
next_message ==
    /\ crcjob.st = "done"
    /\ \E m \in Messages :
           crcjob' = [NoCrc EXCEPT !.st = "loop", !.msg = m, !.rest = m]
    /\ UNCHANGED nonCrcVars

NextCrc == crc_calc_letter \/ crc_calc_return \/ next_message

\* -------------------------------------------------------------------- sensors
\* SIAEventCodeSensor of device type contact and SIAEventBinarySensor. Times are
\* hundredths of a second; the confidence threshold 0.66 is kept as
\* confidence_threshold_num / ConfidenceScale.
MaxSensorOps == 6
debounce_seconds == 144
window_size == 5
confidence_threshold_num == 66
ConfidenceScale == 100

EventGaps == {50, 100, 144}

\* sorted(q), by insertion.
RECURSIVE Sorted(_)
Sorted(q) ==
    IF q = <<>> THEN <<>>
    ELSE LET r == Sorted(Tail(q))
             below == {i \in 1..Len(r) : r[i] < Head(q)}
             k == Cardinality(below)
         IN  SubSeq(r, 1, k) \o <<Head(q)>> \o SubSeq(r, k + 1, Len(r))

\* Twice statistics.median(gaps), for a list that is not empty.
median_twice(gaps) ==
    LET q == Sorted(gaps)
        n == Len(q)
    IN  IF n % 2 = 1 THEN 2 * q[(n + 1) \div 2] ELSE q[n \div 2] + q[(n \div 2) + 1]

\* `self._confidence >= self._confidence_threshold`, with the confidence
\* min(1.0, median_gap / max(0.0001, debounce)), and 1.0 without gaps.
confident(recent) ==
    LET gaps == [i \in 1..(Len(recent) - 1) |-> recent[i + 1] - recent[i]]
    IN  IF gaps = <<>> THEN TRUE
        ELSE \/ median_twice(gaps) >= 2 * debounce_seconds
             \/ median_twice(gaps) * ConfidenceScale
                    >= 2 * confidence_threshold_num * debounce_seconds

\* _update_on_event of both sensor classes, for an event of timestamp now:
\* `accept = allow_debounce or (self._confidence >= self._confidence_threshold)`.
update_on_event(self, now) ==
    LET allow_debounce ==
            \/ self.last_accepted_ts = <<>>
            \/ now - self.last_accepted_ts[1] >= debounce_seconds
        appended == Append(self.recent, now)
        recent == IF Len(appended) > self.window_size THEN Tail(appended)
                  ELSE appended
        accepted == allow_debounce \/ confident(recent)
    IN  [self EXCEPT
            !.raw_count = @ + 1,
            !.recent = recent,
            !.accepted_count = IF accepted THEN @ + 1 ELSE @,
            !.last_accepted_ts = IF accepted THEN <<now>> ELSE @,
            !.now = now,
            !.trace = Append(@, [op |-> "event", now |-> now, accepted |-> accepted,
                                 last_acc |-> self.last_accepted_ts])]

\* SIAEventCodeSensor.state of a sensor of device type contact.
state(self) ==
    IF self.initial_state # "None" THEN self.initial_state
    ELSE IF self.accepted_count % 2 # 0 THEN "open" ELSE "closed"

\* SIAEventBinarySensor.is_on: TRUE is open.
is_on(self) ==
    LET baseline_open == self.initial_state = "open"
        parity == self.accepted_count % 2
    IN  IF parity = 0 THEN baseline_open ELSE ~baseline_open

InitSensor ==
    /\ InitAio
    /\ InitBase
    /\ tscheck = NoCheck
    /\ debouncer = NoDebouncer
    /\ crcjob = NoCrc
    /\ siadata = NoData
    /\ \E k \in {"code", "binary"}, i \in {"None", "open", "closed"} :
           sensor = [NoSensor EXCEPT !.kind = k, !.initial_state = i,
                                     !.window_size = window_size]

\* A matching event reaches the sensor, gap after the previous one.
sensor_event(gap) ==
    /\ sensor.kind # "none"
    /\ Len(sensor.trace) < MaxSensorOps
    /\ sensor' = update_on_event(sensor, sensor.now + gap)
    /\ UNCHANGED nonSensorVars

\* reset_toggle of both sensor classes.
reset_toggle ==
    /\ sensor.kind # "none"
    /\ Len(sensor.trace) < MaxSensorOps
    /\ sensor' = [sensor EXCEPT
                     !.accepted_count = 0,
                     !.trace = Append(@, [op |-> "reset_toggle", now |-> sensor.now,
                                          accepted |-> FALSE,
                                          last_acc |-> sensor.last_accepted_ts])]
    /\ UNCHANGED nonSensorVars

\* The window sizes the set_predictor_params service is called with.
WindowSizes == {1, 3}

\* set_predictor_params(window_size=w) of both sensor classes: the other
\* parameters are left out, and only _window_size is assigned.
set_predictor_params(w) ==
    /\ sensor.kind # "none"
    /\ Len(sensor.trace) < MaxSensorOps
    /\ w # sensor.window_size
    /\ sensor' = [sensor EXCEPT
                     !.window_size = w,
                     !.trace = Append(@, [op |-> "set_predictor_params",
                                          now |-> sensor.now, accepted |-> FALSE,
                                          last_acc |-> sensor.last_accepted_ts])]
    /\ UNCHANGED nonSensorVars

NextSensor ==
    \/ \E g \in EventGaps : sensor_event(g)
    \/ reset_toggle

\* --------------------------------------------------------------- SIAAlarmData
MaxDelivered == 2   \* events passed to SIAAlarmData._on_sia_event
MaxAddCodes == 3

KnownCodes == {"CL", "OP"}

\* async_load_codes and async_setup_entry of the sensor platform: without a
\* mapping one SIAEventCodeSensor is constructed for every persisted code;
\* created_codes starts empty and entity_adder is set.
InitData ==
    /\ InitAio
    /\ InitBase
    /\ tscheck = NoCheck
    /\ debouncer = NoDebouncer
    /\ crcjob = NoCrc
    /\ sensor = NoSensor
    /\ \E persisted \in SUBSET KnownCodes, mapping \in BOOLEAN :
           siadata = [NoData EXCEPT
                         !.setup = TRUE,
                         !.codes = persisted,
                         !.code_sensors =
                             IF mapping THEN <<>>
                             ELSE LET RECURSIVE list(_)
                                      list(S) ==
                                          IF S = {} THEN <<>>
                                          ELSE LET c == CHOOSE x \in S : TRUE
                                               IN  <<c>> \o list(S \ {c})
                                  IN  list(persisted)]

\* _entity_adder(code): nothing for a code in created_codes, else the code is
\* added to created_codes and _async_add_code_entity(code) is scheduled.
entity_adder(d, code) ==
    IF code \in d.created_codes THEN d
    ELSE [d EXCEPT !.created_codes = @ \cup {code}, !.tasks = Append(@, code)]

\* SIAAlarmData.add_code(code): the entry of the code is created or updated,
\* then entity_adder(code) is called.
add_code(code) ==
    /\ siadata.setup
    /\ Len(siadata.added) < MaxAddCodes
    /\ siadata' = [entity_adder([siadata EXCEPT !.codes = @ \cup {code}], code)
                       EXCEPT !.added = Append(@, code)]
    /\ UNCHANGED nonDataVars

\* A scheduled _async_add_code_entity(code) runs: a SIAEventCodeSensor is
\* constructed for the code and added.
async_add_code_entity ==
    /\ siadata.tasks # <<>>
    /\ siadata' = [siadata EXCEPT !.tasks = Tail(@),
                                  !.code_sensors = Append(@, Head(siadata.tasks))]
    /\ UNCHANGED nonDataVars

NextCodes ==
    \/ \E code \in KnownCodes : add_code(code)
    \/ async_add_code_entity

\* The entities whose constructors register a callback with add_listener.
Listeners == {"monitor", "log", "code_CL"}

\* SIAAlarmData.add_listener, as the constructor of an entity calls it: once
\* for the callback of that entity.
add_listener(callback) ==
    /\ callback \notin siadata.removed
    /\ \A i \in 1..Len(siadata.listeners) : siadata.listeners[i] # callback
    /\ siadata' = [siadata EXCEPT !.listeners = Append(@, callback)]
    /\ UNCHANGED nonDataVars

\* SIAAlarmData.remove_listener, called by async_will_remove_from_hass of a
\* registered entity: list.remove drops the first occurrence.
remove_listener(callback) ==
    LET ls == siadata.listeners
        at == {i \in 1..Len(ls) : ls[i] = callback}
    IN  /\ at # {}
        /\ LET k == CHOOSE i \in at : \A j \in at : i <= j
           IN  siadata' = [siadata EXCEPT
                              !.listeners = SubSeq(ls, 1, k - 1)
                                                \o SubSeq(ls, k + 1, Len(ls)),
                              !.removed = @ \cup {callback}]
        /\ UNCHANGED nonDataVars

\* A loop over the listeners without the try: the first exception ends it.
notify_until_raise(ls, event, raising) ==
    LET at == {i \in 1..Len(ls) : ls[i] \in raising}
        n == IF at = {} THEN Len(ls) ELSE CHOOSE i \in at : \A j \in at : i <= j
    IN  [i \in 1..n |-> [event |-> event, listener |-> ls[i],
                         raised |-> ls[i] \in raising]]

\* `for listener in self.listeners: try: listener(event) except Exception`: the
\* calls made for one event, those of set raising ending in an exception.
notify(ls, event, raising) ==
    [i \in 1..Len(ls) |-> [event |-> event, listener |-> ls[i],
                           raised |-> ls[i] \in raising]]

\* SIAAlarmData._on_sia_event with learning off, as constructed: the event is
\* appended to events and the listeners are notified.
on_sia_event(raising) ==
    /\ Len(siadata.events) < MaxDelivered
    /\ LET event == Len(siadata.events) + 1
       IN  siadata' = [siadata EXCEPT
                          !.events = Append(@, event),
                          !.calls = @ \o notify(siadata.listeners, event, raising)]
    /\ UNCHANGED nonDataVars

NextFanout ==
    \/ \E l \in Listeners : add_listener(l)
    \/ \E l \in Listeners : remove_listener(l)
    \/ \E raising \in SUBSET Listeners : on_sia_event(raising)

NextAio ==
    \/ SIAClient_start
    \/ SIAClient_stop
    \/ \E g \in Servers : start_server_task(g)
    \/ \E c \in Conns : accept(c)
    \/ \E c \in Conns, l \in Lines : peer_send(c, l)
    \/ \E c \in Conns : peer_close(c)
    \/ \E c \in Conns : peer_reset(c)
    \/ \E c \in Conns : handle_line_read(c)
    \/ \E c \in Conns : handle_line_drain(c)
    \/ \E c \in Conns : async_func_return(c)
    \/ \E c \in Conns : async_func_raise(c)

vars == <<aioVars, baseVars, clockVars, debVars, crcVars, sensorVars, dataVars>>

\* The event-loop driver.
Init ==
    /\ InitAio /\ InitBase
    /\ tscheck = NoCheck /\ debouncer = NoDebouncer /\ crcjob = NoCrc
    /\ sensor = NoSensor
    /\ siadata = NoData
Next == NextAio
Spec == Init /\ [][Next]_vars

\* The thread-per-connection driver.
SpecBase == Init /\ [][NextBase]_vars

\* The thread-per-connection driver with its raw-line log.
SpecRaw == Init /\ [][NextRaw]_vars

\* SIAAlarmData learning codes, with the sensor platform set up.
SpecCodes == InitData /\ [][NextCodes]_vars

\* SIAAlarmData from its construction on, with entities registering and
\* removing their callbacks between the events.
SpecFanout == Init /\ [][NextFanout]_vars

\* A sensor given events and reset_toggle calls.
SpecSensor == InitSensor /\ [][NextSensor]_vars

\* A sensor whose predictor is reconfigured between its events.
NextPredictor ==
    \/ \E g \in EventGaps : sensor_event(g)
    \/ \E w \in WindowSizes : set_predictor_params(w)

SpecPredictor == InitSensor /\ [][NextPredictor]_vars

\* crc_calc over byte sequences.
SpecCrc == InitCrc /\ [][NextCrc]_vars

\* An AdaptiveDebounce object given a sequence of events.
SpecDebounce == InitDebounce /\ [][NextDebounce]_vars

\* The timestamp check of events, over timebands and timestamps.
SpecClock == InitClock /\ [][NextClock]_vars

\* The event-loop driver once start() has run and its server listens: the
\* connections of a serving server, with a well-formed and a malformed line.
ServingLines == {L_valid, L_garbage}

InitServing ==
    /\ InitBase
    /\ tscheck = NoCheck
    /\ debouncer = NoDebouncer
    /\ crcjob = NoCrc
    /\ sensor = NoSensor
    /\ siadata = NoData
    /\ accounts = {KnownAccount}
    /\ nsrv = 1
    /\ tstate = [g \in Servers |-> IF g = 1 THEN "done" ELSE "none"]
    /\ stopped = FALSE
    /\ srvAccounts = [g \in Servers |-> IF g = 1 THEN {KnownAccount} ELSE {}]
    /\ shutdown_flag = [g \in Servers |-> FALSE]
    /\ listenSrv = 1
    /\ pc = [c \in Conns |-> "idle"]
    /\ csrv = [c \in Conns |-> 0]
    /\ inbox = [c \in Conns |-> <<>>]
    /\ peer = [c \in Conns |-> "open"]
    /\ nsent = 0
    /\ out = [c \in Conns |-> <<>>]
    /\ log = [c \in Conns |-> <<>>]

NextServing ==
    \/ SIAClient_stop
    \/ \E c \in Conns : accept(c)
    \/ \E c \in Conns, l \in ServingLines : peer_send(c, l)
    \/ \E c \in Conns : peer_close(c)
    \/ \E c \in Conns : peer_reset(c)
    \/ \E c \in Conns : handle_line_read(c)
    \/ \E c \in Conns : handle_line_drain(c)
    \/ \E c \in Conns : async_func_return(c)
    \/ \E c \in Conns : async_func_raise(c)

SpecServing == InitServing /\ [][NextServing]_vars

\* The state SpecServing starts in.
ServingState ==
    /\ nsrv = 1 /\ listenSrv = 1 /\ tstate[1] = "done" /\ ~stopped
    /\ srvAccounts[1] = {KnownAccount} /\ ~shutdown_flag[1]
    /\ \A c \in Conns : pc[c] = "idle"

\* The event-loop driver, serving, with the lines of panels: the packet of the
\* smoke test, a block that does not decrypt, a line that does not parse and a
\* line that names an account not configured.
PanelLines == {L_smoke, L_corrupt, L_garbage, L_unknown}

NextPanel ==
    \/ \E c \in Conns : accept(c)
    \/ \E c \in Conns, l \in PanelLines : peer_send(c, l)
    \/ \E c \in Conns : peer_close(c)
    \/ \E c \in Conns : handle_line_read(c)
    \/ \E c \in Conns : handle_line_drain(c)
    \/ \E c \in Conns : async_func_return(c)
    \/ \E c \in Conns : async_func_raise(c)

SpecPanel == InitServing /\ [][NextPanel]_vars

\* The event-loop driver, serving, with its client's accounts assigned anew
\* while connections are handled.
ReconfigLines == {L_valid, L_unknown}

NextReconfig ==
    \/ \E as \in AccountSets : SIAClient_set_accounts(as)
    \/ \E c \in Conns : accept(c)
    \/ \E c \in Conns, l \in ReconfigLines : peer_send(c, l)
    \/ \E c \in Conns : peer_close(c)
    \/ \E c \in Conns : handle_line_read(c)
    \/ \E c \in Conns : handle_line_drain(c)
    \/ \E c \in Conns : async_func_return(c)
    \/ \E c \in Conns : async_func_raise(c)

SpecReconfig == InitServing /\ [][NextReconfig]_vars

\* The client from its construction on: started, reconfigured and stopped in
\* any order while one panel connects and its lines are handled.
Panel == CHOOSE c \in Conns : TRUE

NextLifecycle ==
    \/ SIAClient_start
    \/ SIAClient_stop
    \/ \E g \in Servers : start_server_task(g)
    \/ \E as \in AccountSets : SIAClient_set_accounts(as)
    \/ accept(Panel)
    \/ \E l \in ReconfigLines : peer_send(Panel, l)
    \/ handle_line_read(Panel)
    \/ handle_line_drain(Panel)
    \/ async_func_return(Panel)

SpecLifecycle == Init /\ [][NextLifecycle]_vars

\* ------------------------------------------------------------------ claims
\* Helpers over the history of the event-loop driver.
IsAck(rsp) == Len(rsp) >= 5 /\ SubSeq(rsp, 1, 5) = "\"ACK\""
IsNak(rsp) == Len(rsp) >= 5 /\ SubSeq(rsp, 1, 5) = "\"NAK\""
IsDuh(rsp) == rsp = "\"DUH\""

\* A full alarm event whose checksum matches, whose account resolves, whose code
\* is present and whose timestamp is within tolerance.
Eligible(l, accts) ==
    IsFullEvent(l) /\ l.crcOk /\ l.account \in accts /\ l.hasCode /\ l.tsOk

\* A line the protocol rejects: malformed, of an unknown account, or a full event
\* with a checksum mismatch, without a code or with an expired timestamp.
Rejectable(l, accts) ==
    \/ Malformed(l)
    \/ IsFullEvent(l) /\ ~Eligible(l, accts)

\* The chunks a handler has parsed that held exactly one line.
OneLine(c) == {i \in 1..Len(log[c]) : log[c][i].parsed /\ Len(log[c][i].chunk) = 1}

\* C1: a line is acknowledged and dispatched only if it is a full event with a
\* matching checksum, a resolved account, a code and a timestamp within
\* tolerance; every other full or malformed line is answered with a reject and
\* is not dispatched.
C1_AckAndDispatchOnlyIfEligible ==
    \A c \in Conns : \A i \in OneLine(c) :
        LET e == log[c][i]
            l == e.chunk[1]
        IN  /\ (IsAck(e.rsp) \/ e.disp) => Eligible(l, srvAccounts[csrv[c]])
            /\ Rejectable(l, srvAccounts[csrv[c]]) => IsNak(e.rsp) /\ ~e.disp

\* C2: a keep-alive line is answered with exactly "DUH", whether or not its
\* account is configured, and the callback is never invoked for it.
C2_KeepAliveAnsweredNotDispatched ==
    \A c \in Conns : \A i \in OneLine(c) :
        LET e == log[c][i]
        IN  IsKeepAlive(e.chunk[1]) => IsDuh(e.rsp) /\ ~e.disp

\* Occurrences of counter k in a sequence of counter names.
RECURSIVE Occ(_, _)
Occ(counted, k) ==
    IF counted = <<>> THEN 0
    ELSE (IF Head(counted) = k THEN 1 ELSE 0) + Occ(Tail(counted), k)

RECURSIVE OccHist(_, _)
\* Occurrences of counter k over the entries of one thread's history.
OccHist(h, k) ==
    IF h = <<>> THEN 0 ELSE Occ(Head(h).counted, k) + OccHist(Tail(h), k)

RECURSIVE OccThreads(_, _)
OccThreads(ts, k) ==
    IF ts = {} THEN 0
    ELSE LET t == CHOOSE x \in ts : TRUE
         IN  OccHist(hist[t], k) + OccThreads(ts \ {t}, k)

RECURSIVE OccReasons(_, _)
\* Occurrences of the reason counters of set ks in a sequence of counter names.
OccReasons(counted, ks) ==
    IF ks = {} THEN 0
    ELSE LET k == CHOOSE x \in ks : TRUE
         IN  Occ(counted, k) + OccReasons(counted, ks \ {k})

\* Every counter holds exactly the increments the history records.
CountsMatchHistory == \A k \in CounterNames : counts[k] = OccThreads(Threads, k)

\* The entries of thread t whose line has been handled to the end.
Handled(t) ==
    {i \in 1..Len(hist[t]) : i < Len(hist[t]) \/ tpc[t] = "recv"}

UnknownAccountLine(l) == HasTag(l) /\ l.account \notin ServerAccounts

C4_RejectedLinesGetNak ==
    \A c \in Conns : \A i \in OneLine(c) :
        LET e == log[c][i]
        IN  Rejectable(e.chunk[1], srvAccounts[csrv[c]]) => IsNak(e.rsp)

\* C5: an exception of the callback does not close the connection: a handler
\* leaves its callback for the closed state only when the shutdown flag is set.
C5_CallbackErrorKeepsConnection ==
    [][\A c \in Conns :
          (pc[c] = "dispatching" /\ pc'[c] = "closed") => shutdown_flag[csrv[c]]]_vars

C7_FailureKeepsConnection ==
    \A c \in Conns :
        (/\ log[c] # <<>>
         /\ Last(log[c]).parsed
         /\ \A j \in 1..Len(Last(log[c]).chunk) :
                Rejectable(Last(log[c]).chunk[j], srvAccounts[csrv[c]])
         /\ peer[c] = "open"
         /\ ~shutdown_flag[csrv[c]])
        => pc[c] # "closed"

\* A line the handler answers when it arrives alone.
Answered(l, accts) == parse_message(<<l>>, accts) # None

\* C8: each line gets its own response: a chunk of lines that are each answered
\* when alone gets as many responses as it holds lines.
C8_OneResponsePerLine ==
    \A c \in Conns : \A i \in 1..Len(log[c]) :
        LET e == log[c][i]
        IN  (e.parsed /\ \A j \in 1..Len(e.chunk) :
                            Answered(e.chunk[j], srvAccounts[csrv[c]]))
            => (IF e.rsp = "" THEN 0 ELSE 1) = Len(e.chunk)

\* C9: once stop() has returned, the listening socket is closed and every
\* connection handler has closed its writer.
C9_StopLeavesNoSocket ==
    stopped => listenSrv = 0 /\ \A c \in Conns : pc[c] \in {"idle", "closed"}

\* C10: while the callback of connection a is suspended, every other connection
\* b goes on: its read resumes when data or the end of the stream is there, its
\* drain and its own callback can complete, and b can still be accepted.
C10_SlowCallbackBlocksOnlyItsConnection ==
    \A a \in Conns : \A b \in Conns \ {a} :
        pc[a] = "dispatching" =>
            /\ (pc[b] = "reading" /\ (inbox[b] # <<>> \/ peer[b] # "open"))
                   => ENABLED handle_line_read(b)
            /\ pc[b] = "draining" => ENABLED handle_line_drain(b)
            /\ pc[b] = "dispatching" => ENABLED async_func_return(b)
            /\ (pc[b] = "idle" /\ listenSrv # 0) => ENABLED accept(b)

\* Connection a is in its first callback, and meanwhile b had a line read,
\* answered and dispatched to the end.
C10_Witness ==
    \E a \in Conns : \E b \in Conns \ {a} :
        /\ pc[a] = "dispatching" /\ Len(log[a]) = 1
        /\ pc[b] = "reading" /\ Len(log[b]) = 1
        /\ a \in log[b][1].susp /\ log[b][1].disp /\ IsAck(log[b][1].rsp)

\* A step in which the handler of c leaves its loop on a reset connection or on
\* an error of the handling.
ErrorExit(c) ==
    /\ pc[c] \in {"reading", "draining", "dispatching"}
    /\ pc'[c] = "closed"
    /\ peer[c] = "reset" \/ pc[c] = "dispatching"

\* C11: a connection reset or a handling error on one connection ends only the
\* handler of that connection: the step changes neither the shutdown flag, nor
\* the listening socket (new connections are accepted as before), nor the
\* position, the buffered lines, the responses or the peer of any other
\* connection, and a read of another handler that could resume still can.
C11_ErrorEndsOnlyItsConnection ==
    [][\A c \in Conns :
          ErrorExit(c) =>
              /\ shutdown_flag' = shutdown_flag
              /\ listenSrv' = listenSrv
              /\ \A b \in Conns \ {c} :
                     /\ pc'[b] = pc[b] /\ inbox'[b] = inbox[b]
                     /\ out'[b] = out[b] /\ peer'[b] = peer[b]
                     /\ csrv'[b] = csrv[b]
                     /\ read_ready(b)' <=> read_ready(b)]_vars

\* Connection c was reset and its handler has closed it; b has a line waiting
\* to be read and the server is not shutting down.
C11_Witness ==
    \E c \in Conns : \E b \in Conns \ {c} :
        /\ pc[c] = "closed" /\ peer[c] = "reset" /\ log[c] # <<>>
        /\ pc[b] = "reading" /\ inbox[b] # <<>> /\ peer[b] = "open"
        /\ ~shutdown_flag[csrv[b]]

\* The Acknowledge literal of the protocol for line l: "ACK"R<r>L<l>#<a>, with
\* the ids of the line and 0 for an id the line does not carry.
AckLiteral(l) ==
    "\"ACK\"R" \o id_of(l.rcv) \o "L" \o id_of(l.ln) \o "#" \o l.account

\* C12: the response to an acknowledged full event with receiver id r, line id
\* l and account a is exactly "ACK"R<r>L<l>#<a>, each marker once.
C12_AckLiteralExact ==
    \A c \in Conns : \A i \in OneLine(c) :
        LET e == log[c][i]
        IN  (IsFullEvent(e.chunk[1]) /\ IsAck(e.rsp))
                => e.rsp = AckLiteral(e.chunk[1])

\* C13: for the configured account "1111" and the well-formed line built with
\* code "CL" and zone 1, the line is acknowledged, and the event the callback
\* is invoked with, once, has code "CL".
C13_SmokeEventCode ==
    \A c \in Conns : \A i \in OneLine(c) :
        LET e == log[c][i]
        IN  e.chunk[1] = L_smoke =>
                /\ e.event # None
                /\ e.disp => e.event.code = "CL"

\* A full event that is valid but for its declared checksum.
ChecksumFlipped(l, accts) ==
    IsFullEvent(l) /\ ~l.crcOk /\ l.account \in accts /\ l.hasCode /\ l.tsOk

\* C14: an otherwise valid full event whose declared checksum differs from the
\* computed one is answered with Reject and is not dispatched.
C14_ChecksumMismatchRejected ==
    \A c \in Conns : \A i \in OneLine(c) :
        LET e == log[c][i]
        IN  ChecksumFlipped(e.chunk[1], srvAccounts[csrv[c]])
                => IsNak(e.rsp) /\ ~e.disp

\* A timestamp within the tolerance T of the account's timeband <<T>>.
WithinTolerance(allowed_timeband, timestamp, current_time) ==
    /\ current_time <= timestamp[1] + allowed_timeband[1]
    /\ timestamp[1] <= current_time + allowed_timeband[1]

\* C15: with a tolerance T configured for the account, a timestamp is valid
\* exactly when it lies within T of the current time (now - T itself is
\* valid, one unit older is not); an invalid one is answered with Reject and
\* counted as timestamp-invalid.
C15_TimestampWithinConfiguredTolerance ==
    (tscheck.st = "checked" /\ tscheck.allowed_timeband # <<>>
                            /\ tscheck.timestamp # <<>>)
    => /\ tscheck.valid <=>
              WithinTolerance(tscheck.allowed_timeband,
                              tscheck.timestamp, Now)
       /\ ~tscheck.valid =>
              tscheck.counted = <<COUNTER_TIMESTAMP>> /\ tscheck.rsp = "NAK"

\* The entries of a history for which the callback was called.
RECURSIVE CalledIn(_)
CalledIn(h) ==
    IF h = <<>> THEN 0 ELSE (IF Head(h).called THEN 1 ELSE 0) + CalledIn(Tail(h))

RECURSIVE CalledByThreads(_)
CalledByThreads(ts) ==
    IF ts = {} THEN 0
    ELSE LET t == CHOOSE x \in ts : TRUE
         IN  CalledIn(hist[t]) + CalledByThreads(ts \ {t})

\* Connection t has sent only valid lines.
OnlyValidLines(t) ==
    \A i \in 1..Len(hist[t]) : Eligible(hist[t][i].line, ServerAccounts)

C17_EmptyChunkIsNoOp ==
    /\ CountsMatchHistory
    /\ \A t \in Threads : \A i \in 1..Len(hist[t]) :
           LET h == hist[t][i]
           IN  Blank(h.line) =>
                   /\ h.event = None
                   /\ h.counted = <<>>
                   /\ ~h.raw
                   /\ ~h.called
                   /\ ~func_wrap_calls(h.event)

\* A connection has sent a valid line and then an empty chunk: one line is
\* counted and one callback was made.
C17_Witness ==
    \E t \in Threads :
        /\ Len(hist[t]) = 2 /\ tpc[t] = "recv"
        /\ hist[t][1].line = L_valid /\ hist[t][2].line = L_blank
        /\ counts[COUNTER_EVENTS] = 1 /\ ncalls = 1 /\ Len(sent[t]) = 1

\* The chunks a handler has parsed.
Parsed(c) == {i \in 1..Len(log[c]) : log[c][i].parsed}

\* What the j-th line of a parsed chunk got: the response written for the chunk
\* and the dispatch of its event, for the line the event was made from; no
\* response and no dispatch for every other line of the chunk.
LineOutcome(e, j) ==
    IF e.event # None /\ j = SIA_REGEX_search(e.chunk)
    THEN [rsp |-> e.rsp, dispatch |-> TRUE]
    ELSE [rsp |-> "", dispatch |-> FALSE]

\* C18: the response and the dispatch decision for a line depend on the line
\* alone: with the same accounts, two occurrences of the same line, whatever
\* lines came before them on the same or on other connections, get the same
\* response and the same dispatch decision.
C18_OutcomeIndependentOfHistory ==
    \A c1 \in Conns : \A c2 \in Conns :
        \A i1 \in Parsed(c1) : \A i2 \in Parsed(c2) :
            LET e1 == log[c1][i1]
                e2 == log[c2][i2]
            IN  \A j1 \in 1..Len(e1.chunk) : \A j2 \in 1..Len(e2.chunk) :
                    (/\ srvAccounts[csrv[c1]] = srvAccounts[csrv[c2]]
                     /\ e1.chunk[j1] = e2.chunk[j2])
                    => LineOutcome(e1, j1) = LineOutcome(e2, j2)

\* A line the parser cannot make an event of: malformed, or naming an account
\* that is not configured.
Unparsable(l, accts) == Malformed(l) \/ (HasTag(l) /\ l.account \notin accts)

AllUnparsable(chunk, accts) ==
    \A j \in 1..Len(chunk) : Unparsable(chunk[j], accts)

\* C19: parsing never raises to the connection loop: a malformed line or a line
\* of an unknown account gives no event to dispatch, and the handler goes back
\* to reading on the same connection (while the peer is connected and the
\* server is not shutting down).
C19_ParseFailureNeverEndsHandler ==
    \A c \in Conns :
        /\ \A i \in Parsed(c) :
               AllUnparsable(log[c][i].chunk, srvAccounts[csrv[c]])
                   => log[c][i].event = None /\ ~log[c][i].disp
        /\ (/\ log[c] # <<>>
            /\ Last(log[c]).parsed
            /\ AllUnparsable(Last(log[c]).chunk, srvAccounts[csrv[c]])
            /\ peer[c] = "open"
            /\ ~shutdown_flag[csrv[c]])
           => pc[c] = "reading"

\* A handler has parsed a malformed line and then a line of an unknown account,
\* has written nothing and is reading again.
C19_Witness ==
    \E c \in Conns :
        /\ Len(log[c]) = 2 /\ pc[c] = "reading" /\ out[c] = <<>>
        /\ log[c][1].chunk = <<L_garbage>> /\ log[c][2].chunk = <<L_unknown>>
        /\ log[c][1].parsed /\ log[c][2].parsed

\* C20: for an account with a key the content block is a cipher block: a line
\* whose block does not decrypt under the key to text with the trailer is
\* rejected as a format error, with a Reject response and no dispatch.
C20_UndecryptableBlockRejected ==
    \A c \in Conns : \A i \in OneLine(c) :
        LET e == log[c][i]
            l == e.chunk[1]
        IN  (IsFullEvent(l) /\ l.account \in srvAccounts[csrv[c]]
                            /\ HasKey(l.account) /\ l.block = "corrupt")
                => IsNak(e.rsp) /\ ~e.disp

\* C21: the accounts a server resolves lines against are fixed when the server
\* is constructed: no step taken while it runs changes them.
C21_AccountsFixedAtConstruction ==
    [][\A g \in 1..nsrv : srvAccounts'[g] = srvAccounts[g]]_vars

RECURSIVE RawWritesIn(_, _)
\* The entries of a history whose line is l and was written to the raw-line log.
RawWritesIn(h, l) ==
    IF h = <<>> THEN 0
    ELSE (IF Head(h).line = l /\ Head(h).raw /\ Head(h).rawok THEN 1 ELSE 0)
         + RawWritesIn(Tail(h), l)

RECURSIVE RawWrites(_, _)
RawWrites(ts, l) ==
    IF ts = {} THEN 0
    ELSE LET t == CHOOSE x \in ts : TRUE
         IN  RawWritesIn(hist[t], l) + RawWrites(ts \ {t}, l)

\* The first n elements of a sequence.
Prefix(s, n) == SubSeq(s, 1, n)

\* C22: with a raw-line log configured, every non-empty line received goes to
\* the log, once, whether it is then acknowledged or rejected, and an empty
\* one does not; a write that fails leaves the event, the counters and the
\* response as they are when it succeeds, and ends no handler.
C22_RawLineLogged ==
    /\ CountsMatchHistory
    /\ \A l \in BaseLines : CopiesIn(l, rawlog) = RawWrites(Threads, l)
    /\ \A t \in Threads :
           /\ tpc[t] # "dead"
           /\ \A i \in 1..Len(hist[t]) :
                  LET h == hist[t][i]
                      r == parse_and_check_event(h.line, ServerAccounts)
                  IN  /\ h.raw <=> ~Blank(h.line)
                      /\ h.event = r.event
                      /\ Len(h.counted) >= Len(r.counted)
                      /\ Prefix(h.counted, Len(r.counted)) = r.counted
                      /\ h.rsp # "" => h.rsp = base_response(r.event)

\* A valid line whose log write failed was acknowledged and dispatched, and a
\* rejected line is in the log once.
C22_Witness ==
    /\ CopiesIn(L_garbage, rawlog) = 1 /\ CopiesIn(L_valid, rawlog) = 0
    /\ \E t \in Threads : \E i \in 1..Len(hist[t]) :
           /\ hist[t][i].line = L_valid /\ ~hist[t][i].rawok
           /\ hist[t][i].rsp = "ACK" /\ hist[t][i].called
    /\ \E t \in Threads : \E i \in 1..Len(hist[t]) :
           hist[t][i].line = L_garbage /\ hist[t][i].rsp = "NAK"
    /\ counts[COUNTER_EVENTS] = 2 /\ counts[COUNTER_FORMAT] = 1

\* The events 2..k of the trace each came less than safe_gap after the previous.
BurstUpTo(j, k) ==
    \A i \in (j + 1)..k :
        debouncer.trace[i].timestamp - debouncer.trace[i - 1].timestamp
            < debouncer.safe_gap

\* C23: in a sequence of events each less than safe_gap after the previous one,
\* process_event returns True for the first event and False for every later
\* one, whatever initial_window, safe_gap and the start timestamp are.
C23_BurstFilteredToOneAction ==
    debouncer.made =>
        \A k \in 1..Len(debouncer.trace) :
            BurstUpTo(1, k) => (debouncer.trace[k].result <=> k = 1)

\* The event i of the trace came at least debounce_window after the last
\* trigger and at least safe_gap after the last event received.
AfterSilence(i) ==
    LET e == debouncer.trace[i]
    IN  /\ i > 1
        /\ (e.timestamp - e.last_trigger_time[1]) * WindowScale >= e.debounce_window
        /\ e.timestamp - e.last_event_time >= debouncer.safe_gap

\* C24: an event that arrives at least debounce_window after the last trigger
\* and at least safe_gap after the last event makes process_event return True,
\* and the events that follow it, each less than safe_gap after the previous
\* one, all return False: the burst after a silence yields one trigger.
C24_NewActionAfterSilence ==
    debouncer.made =>
        \A j \in 1..Len(debouncer.trace) :
            AfterSilence(j) =>
                /\ debouncer.trace[j].result
                /\ \A k \in (j + 1)..Len(debouncer.trace) :
                       BurstUpTo(j, k) => ~debouncer.trace[k].result

\* A second burst of three events, the later ones coming after the window of
\* the trigger has passed, yielded one trigger.
C24_Witness ==
    /\ debouncer.made
    /\ Len(debouncer.trace) = 4
    /\ AfterSilence(2)
    /\ BurstUpTo(2, 4)
    /\ debouncer.trace[2].result
    /\ ~debouncer.trace[3].result /\ ~debouncer.trace[4].result
    /\ (debouncer.trace[3].timestamp - debouncer.trace[2].timestamp) * WindowScale
           >= debouncer.trace[3].debounce_window

RECURSIVE ResponsesOf(_)
\* The responses of the entries of a connection's history, in order.
ResponsesOf(l) ==
    IF l = <<>> THEN <<>>
    ELSE (IF Head(l).rsp = "" THEN <<>> ELSE <<Head(l).rsp>>) \o ResponsesOf(Tail(l))

\* C25: in the event-loop handler the callback of an event starts only after
\* the response of that event was written and the drain returned, and nothing
\* done while the callback runs, returns or raises changes what was sent on
\* the connection.
C25_ResponseSentBeforeDispatch ==
    /\ [](\A c \in Conns :
              /\ out[c] = ResponsesOf(log[c])
              /\ \A i \in 1..Len(log[c]) : log[c][i].disp => log[c][i].rsp # "")
    /\ [][\A c \in Conns :
              /\ (pc[c] # "dispatching" /\ pc'[c] = "dispatching")
                     => /\ pc[c] = "draining"
                        /\ out[c] # <<>>
                        /\ Last(out[c]) = Last(log'[c]).rsp
              /\ pc[c] = "dispatching" => out'[c] = out[c]]_vars

\* The callback of an acknowledged event raised and the handler closed the
\* connection; the response is still what was sent.
C25_Witness ==
    \E c \in Conns :
        /\ pc[c] = "closed" /\ peer[c] = "open" /\ ~shutdown_flag[csrv[c]]
        /\ Len(log[c]) = 1 /\ log[c][1].disp
        /\ out[c] = <<log[c][1].rsp>>

\* C26: once the shutdown flag of its server is set, a handler starts no new
\* read, takes a chunk only from the read that was in flight, and every step
\* it takes leads on towards the end of its loop, where the writer is closed,
\* which is final.
C26_ShutdownFlagCooperative ==
    [][\A c \in Conns :
           /\ (csrv[c] # 0 /\ shutdown_flag[csrv[c]])
                  => /\ pc[c] # "reading" => pc'[c] # "reading"
                     /\ Len(log'[c]) > Len(log[c]) => pc[c] = "reading"
                     /\ pc'[c] # pc[c] =>
                            \/ pc'[c] = "closed"
                            \/ pc[c] = "reading" /\ pc'[c] = "draining"
                            \/ pc[c] = "draining" /\ pc'[c] = "dispatching"
           /\ pc[c] = "closed" => pc'[c] = "closed"]_vars

\* A read was in flight when the flag was set: its chunk, which held no event,
\* was taken, and the handler then left its loop with the peer still connected.
C26_Witness ==
    \E c \in Conns :
        /\ csrv[c] # 0 /\ shutdown_flag[csrv[c]]
        /\ pc[c] = "closed" /\ peer[c] = "open"
        /\ Len(log[c]) = 1 /\ log[c][1].parsed /\ log[c][1].event = None

\* C27: valid_timestamp is True for every timestamp of an event without a
\* resolved account or whose account has no timeband (None); it is False only
\* for an event whose account has a timeband configured, and then the event is
\* counted as timestamp-invalid.
C27_TimestampCheckDisabledByPolicy ==
    tscheck.st = "checked" =>
        /\ (~tscheck.sia_account \/ tscheck.allowed_timeband = <<>>) => tscheck.valid
        /\ ~tscheck.valid => /\ tscheck.sia_account
                             /\ tscheck.allowed_timeband # <<>>
                             /\ tscheck.timestamp # <<>>
        /\ COUNTER_TIMESTAMP \in {tscheck.counted[i] : i \in 1..Len(tscheck.counted)}
               <=> ~tscheck.valid

\* An event ten minutes old of an account without timeband was found valid.
C27_Witness ==
    /\ tscheck.st = "checked" /\ tscheck.sia_account
    /\ tscheck.allowed_timeband = <<>> /\ tscheck.timestamp = <<Now - 600>>
    /\ tscheck.valid /\ tscheck.rsp = "ACK"

\* The reference CRC-16: crc XOR byte, then eight times: shift right, and XOR
\* 0xA001 when the bit shifted out was 1.
RECURSIVE RefShifts(_, _)
RefShifts(crc, n) ==
    IF n = 0 THEN crc
    ELSE RefShifts(IF crc % 2 = 1 THEN Xor(crc \div 2, POLY) ELSE crc \div 2, n - 1)

\* The value of a string of uppercase hex digits; a character that is not one
\* makes it 65536 or more.
RECURSIVE HexValue(_)
HexValue(t) ==
    IF Len(t) = 0 THEN 0
    ELSE LET ch == SubSeq(t, Len(t), Len(t))
             at == {i \in 1..16 : SubSeq("0123456789ABCDEF", i, i) = ch}
         IN  (IF at = {} THEN 65536 ELSE (CHOOSE i \in at : TRUE) - 1)
             + 16 * HexValue(SubSeq(t, 1, Len(t) - 1))

\* C28: crc_calc computes the reflected CRC-16 of polynomial 0xA001 and
\* initial value 0: it starts from 0, every byte takes the checksum to the
\* value the reference algorithm gives for that byte, the checksum stays
\* within 0..65535, and it is returned as exactly four uppercase hex digits.
C28_CrcIsReflectedCrc16 ==
    /\ [](/\ crcjob.crc \in 0..65535
          /\ (crcjob.st = "loop" /\ crcjob.rest = crcjob.msg) => crcjob.crc = 0
          /\ crcjob.st = "done" =>
                 /\ crcjob.rest = <<>>
                 /\ Len(crcjob.text) = 4
                 /\ HexValue(crcjob.text) = crcjob.crc)
    /\ [][(crcjob.st = "loop" /\ crcjob'.st = "loop") =>
              /\ crcjob.rest # <<>>
              /\ crcjob'.rest = Tail(crcjob.rest)
              /\ crcjob'.crc = RefShifts(Xor(crcjob.crc, Head(crcjob.rest)), 8)]_vars

\* The CRC of the two bytes 0x41 0x01 was computed and returned as "90F1".
C28_Witness ==
    /\ crcjob.st = "done" /\ crcjob.msg = <<65, 1>> /\ crcjob.rest = <<>>
    /\ crcjob.crc = 37105 /\ crcjob.text = "90F1"

\* C29: every matching event increments raw_count, and an event that arrives
\* less than debounce seconds after the last accepted event is not accepted:
\* two consecutively accepted events are at least debounce seconds apart.
C29_AcceptedEventsDebounced ==
    sensor.kind # "none" =>
        /\ sensor.raw_count =
               Cardinality({i \in 1..Len(sensor.trace) : sensor.trace[i].op = "event"})
        /\ \A i \in 1..Len(sensor.trace) :
               LET e == sensor.trace[i]
               IN  (e.op = "event" /\ e.accepted /\ e.last_acc # <<>>)
                       => e.now - e.last_acc[1] >= debounce_seconds

\* The contact state a sensor shows.
ContactState(self) ==
    IF self.kind = "code" THEN state(self)
    ELSE IF is_on(self) THEN "open" ELSE "closed"

Inverse(st) == IF st = "open" THEN "closed" ELSE "open"

\* C30: without an override the contact state is open exactly when
\* accepted_count is odd; reset_toggle always returns the sensor to closed; a
\* binary sensor with an initial baseline shows the baseline at even parity
\* and its inverse at odd parity.
C30_ContactTogglesByParity ==
    sensor.kind # "none" =>
        /\ sensor.initial_state = "None" =>
               (ContactState(sensor) = "open" <=> sensor.accepted_count % 2 = 1)
        /\ (sensor.trace # <<>> /\ Last(sensor.trace).op = "reset_toggle")
               => ContactState(sensor) = "closed"
        /\ (sensor.kind = "binary" /\ sensor.initial_state # "None") =>
               ContactState(sensor) =
                   IF sensor.accepted_count % 2 = 0 THEN sensor.initial_state
                   ELSE Inverse(sensor.initial_state)

\* C31: over any sequence of add_code calls, also for codes loaded from the
\* persisted storage at setup, at most one code sensor is created for a code.
C31_OneSensorPerCode ==
    \A code \in KnownCodes :
        Cardinality({i \in 1..Len(siadata.code_sensors) :
                         siadata.code_sensors[i] = code}) <= 1

\* C32: every non-empty chunk a read returns on a connection is passed to the
\* parser, and answered when it holds an event, before the handler exits; so
\* is the last chunk a peer sends right before it closes its side.
C32_NoChunkDiscarded ==
    \A c \in Conns : \A i \in 1..Len(log[c]) :
        /\ log[c][i].parsed
        /\ log[c][i].event # None => log[c][i].rsp # ""

InLoop == {"reading", "draining", "dispatching"}

\* C33: a handler that leaves its loop, whatever makes it leave (end of
\* stream, reset, an error of the callback, the shutdown flag), closes its
\* writer, and does so once: a handler is accepted, in its loop, or ended
\* with its writer closed, and an ended handler takes no further step.
C33_WriterClosedOnExit ==
    /\ [](\A c \in Conns : pc[c] \in {"idle", "closed"} \cup InLoop)
    /\ [][\A c \in Conns :
              /\ (pc[c] \in InLoop /\ pc'[c] \notin InLoop) => pc'[c] = "closed"
              /\ pc[c] = "closed" =>
                     /\ pc'[c] = "closed"
                     /\ out'[c] = out[c] /\ log'[c] = log[c]]_vars

\* One handler ended on the end of its stream and another on an error of its
\* callback; both closed their writers.
C33_Witness ==
    \E c, d \in Conns :
        /\ pc[c] = "closed" /\ peer[c] = "eof"
        /\ pc[d] = "closed" /\ peer[d] = "open" /\ ~shutdown_flag[csrv[d]]
        /\ log[d] # <<>> /\ Last(log[d]).disp

RECURSIVE SumCounts(_, _)
\* The sum of the counters of set ks.
SumCounts(cnts, ks) ==
    IF ks = {} THEN 0
    ELSE LET k == CHOOSE x \in ks : TRUE
         IN  cnts[k] + SumCounts(cnts, ks \ {k})

C36_WindowNeverShrinks ==
    /\ [](debouncer.made /\ debouncer.trace # <<>> =>
             /\ debouncer.debounce_window >= debouncer.trace[1].debounce_window
             /\ \A i \in 1..Len(debouncer.trace) :
                    /\ debouncer.trace[i].debounce_window <= debouncer.debounce_window
                    /\ \A j \in 1..i :
                           debouncer.trace[j].debounce_window
                               <= debouncer.trace[i].debounce_window
             /\ debouncer.last_trigger_time # <<>>
             /\ debouncer.last_trigger_time[1] <= debouncer.last_event_time)
    /\ [][debouncer.made =>
             debouncer'.debounce_window >= debouncer.debounce_window]_vars

\* A burst outgrew the window, which was extended, and its duration was
\* recorded when the next burst began: the window is above initial_window
\* and the recalculation left it there.
C36_Witness ==
    /\ debouncer.made
    /\ Len(debouncer.trace) = MaxEvents
    /\ debouncer.burst_history # <<>>
    /\ debouncer.debounce_window > debouncer.trace[1].debounce_window
    /\ debouncer.last_trigger_time = <<Last(debouncer.trace).timestamp>>

\* The events that began a burst which a later burst has ended, and the
\* duration of such a burst: from its first event to its last.
CompletedBursts ==
    LET tr == debouncer.trace
    IN  {i \in 1..Len(tr) : tr[i].result /\ \E j \in (i + 1)..Len(tr) : tr[j].result}

BurstDuration(i) ==
    LET tr == debouncer.trace
        j == CHOOSE n \in (i + 1)..Len(tr) :
                 tr[n].result /\ \A k \in (i + 1)..(n - 1) : ~tr[k].result
    IN  tr[j - 1].timestamp - tr[i].timestamp

\* C37: burst_history holds at most max_history_len durations, all strictly
\* positive, and exactly one duration for each completed burst of positive
\* duration, whatever the timestamp at which that burst started.
C37_OneDurationPerBurst ==
    debouncer.made =>
        LET h == debouncer.burst_history
            positive == {i \in CompletedBursts : BurstDuration(i) > 0}
        IN  /\ Len(h) <= max_history_len
            /\ \A n \in 1..Len(h) : h[n] > 0
            /\ Cardinality(positive) <= max_history_len =>
                   /\ Len(h) = Cardinality(positive)
                   /\ \A n \in 1..Len(h) : \E i \in positive : h[n] = BurstDuration(i)

\* C38: after an event has been processed the recent-event buffer of the
\* predictor holds at most window_size entries, whatever set_predictor_params
\* calls changed window_size between the events.
C38_RecentWithinWindow ==
    (sensor.kind # "none" /\ sensor.trace # <<>> /\ Last(sensor.trace).op = "event")
        => Len(sensor.recent) <= sensor.window_size

\* The calls made for event number e, in the order they were made.
CallsFor(e) ==
    LET at == {i \in 1..Len(siadata.calls) : siadata.calls[i].event = e}
        RECURSIVE pick(_)
        pick(S) == IF S = {} THEN <<>>
                   ELSE LET k == CHOOSE i \in S : \A j \in S : i <= j
                        IN  <<siadata.calls[k]>> \o pick(S \ {k})
    IN  pick(at)

\* C39: every event passed to _on_sia_event is appended to the event list and
\* each listener registered at that moment is invoked exactly once, in the
\* order of registration, also after a listener before it has raised; a
\* listener removed with remove_listener is not invoked for later events.
C39_ListenerFanOut ==
    [][Len(siadata.events') # Len(siadata.events) =>
           LET e == Len(siadata.events) + 1
               ls == siadata.listeners
               new == SubSeq(siadata.calls', Len(siadata.calls) + 1,
                             Len(siadata.calls'))
           IN  /\ siadata.events' = Append(siadata.events, e)
               /\ SubSeq(siadata.calls', 1, Len(siadata.calls)) = siadata.calls
               /\ Len(new) = Len(ls)
               /\ \A i \in 1..Len(ls) : new[i].listener = ls[i] /\ new[i].event = e
               /\ \A l \in Listeners :
                      Cardinality({i \in 1..Len(new) : new[i].listener = l})
                          = IF \E i \in 1..Len(ls) : ls[i] = l THEN 1 ELSE 0
               /\ \A i \in 1..Len(new) : new[i].listener \notin siadata.removed
               /\ siadata.listeners' = ls]_vars

\* Three listeners were registered; for the first event the first of them
\* raised and the other two were still invoked, in order; then the second was
\* removed, and the next event went to the first and the third only.
C39_Witness ==
    /\ Len(siadata.events) = 2
    /\ Len(CallsFor(1)) = 3
    /\ CallsFor(1)[1].raised /\ ~CallsFor(1)[2].raised
    /\ Len(CallsFor(2)) = 2
    /\ CallsFor(2)[1].listener = CallsFor(1)[1].listener
    /\ CallsFor(2)[2].listener = CallsFor(1)[3].listener
    /\ siadata.removed = {CallsFor(1)[2].listener}

====
